---- MODULE Spec2Model ----
(***************************************************************************)
(* Model of the SQL analysis pipeline of yb-migration:                     *)
(*   text --ParseSQL--> statements --Check (one visitor walk, N checkers)  *)
(*        --> (issues, mutated statements) --generateSQL--> transformed SQL *)
(*                                                                         *)
(* SQL text, file content and file paths are strings.  ParseSQL reads a    *)
(* text as the TiDB parser does, for the part of the grammar the model     *)
(* has: the words of that part are reserved, a table name has no schema.   *)
(* The AST is the part of the TiDB AST the checkers observe.  A node is a  *)
(* record with a "kind" field; a node address is a path of steps [f, i]    *)
(* (field f, element i of a list field, i = 0 for a single child).         *)
(***************************************************************************)
EXTENDS Integers, Sequences, FiniteSets, TLC

\* ------------------------------------------------------------------------
\* Bounds of the model
\* ------------------------------------------------------------------------
MaxStmts == 2

MaxCheckers == 2

\* ------------------------------------------------------------------------
\* Generic sequence helpers
\* ------------------------------------------------------------------------
RECURSIVE Flatten(_)
Flatten(ss) == IF ss = <<>> THEN <<>> ELSE Head(ss) \o Flatten(Tail(ss))

RECURSIVE JoinWithTrailing(_, _)
\* a join that writes the separator after every part
JoinWithTrailing(parts, sep) ==
    IF parts = <<>> THEN ""
    ELSE Head(parts) \o sep \o JoinWithTrailing(Tail(parts), sep)

RECURSIVE JoinWith(_, _)
\* strings.Join(parts, sep)
JoinWith(parts, sep) ==
    IF parts = <<>> THEN ""
    ELSE IF Len(parts) = 1 THEN Head(parts)
    ELSE Head(parts) \o sep \o JoinWith(Tail(parts), sep)

\* the parentheses open before index i of toks
ParenDepth(toks, i) ==
    Cardinality({j \in 1..(i - 1) : toks[j] = "("})
    - Cardinality({j \in 1..(i - 1) : toks[j] = ")"})

\* the element of the set of numbers S with k - 1 elements below it
NthOf(S, k) == CHOOSE i \in S : Cardinality({j \in S : j < i}) = k - 1

\* the pieces of toks between the separators at the indices seps
PiecesOf(toks, seps) ==
    [k \in 1..(Cardinality(seps) + 1) |->
        SubSeq(toks,
               IF k = 1 THEN 1 ELSE NthOf(seps, k - 1) + 1,
               IF k = Cardinality(seps) + 1 THEN Len(toks) ELSE NthOf(seps, k) - 1)]

\* splits toks on sep tokens that are outside parentheses
SplitTop(toks, sep) ==
    PiecesOf(toks, {i \in 1..Len(toks) : toks[i] = sep /\ ParenDepth(toks, i) = 0})

SeqRange(s) == {s[i] : i \in 1..Len(s)}

RECURSIVE SeqsUpTo(_, _)
\* all sequences over S of length 0..n
SeqsUpTo(S, n) ==
    IF n = 0 THEN {<<>>}
    ELSE LET shorter == SeqsUpTo(S, n - 1) IN
         shorter \cup {Append(s, x) : s \in shorter, x \in S}

\* least and greatest index of a set of indices, 0 for the empty set
FirstOf(at) == IF at = {} THEN 0 ELSE CHOOSE i \in at : \A j \in at : i <= j

LastOf(at) == IF at = {} THEN 0 ELSE CHOOSE i \in at : \A j \in at : i >= j

\* ------------------------------------------------------------------------
\* Strings (package strings, path/filepath).  A text is a TLA+ string; its
\* characters are read with Chars.
\* ------------------------------------------------------------------------
Chars(s) == [i \in 1..Len(s) |-> SubSeq(s, i, i)]

LowerLetters ==
    <<"a", "b", "c", "d", "e", "f", "g", "h", "i", "j", "k", "l", "m",
      "n", "o", "p", "q", "r", "s", "t", "u", "v", "w", "x", "y", "z">>

UpperLetters ==
    <<"A", "B", "C", "D", "E", "F", "G", "H", "I", "J", "K", "L", "M",
      "N", "O", "P", "Q", "R", "S", "T", "U", "V", "W", "X", "Y", "Z">>

Letters == SeqRange(LowerLetters) \cup SeqRange(UpperLetters)

Digits == {"0", "1", "2", "3", "4", "5", "6", "7", "8", "9"}

UpperTable ==
    [c \in SeqRange(LowerLetters) |->
        UpperLetters[CHOOSE i \in 1..Len(LowerLetters) : LowerLetters[i] = c]]

LowerTable ==
    [c \in SeqRange(UpperLetters) |->
        LowerLetters[CHOOSE i \in 1..Len(UpperLetters) : UpperLetters[i] = c]]

\* "<bq>" stands for the backquote character, which a TLA+ string cannot
\* hold; it is one character of a text
Backtick == "<bq>"

\* a backquote starts at index i of the characters c
IsBq(c, i) ==
    /\ i >= 1 /\ i + 3 <= Len(c)
    /\ c[i] = "<" /\ c[i + 1] = "b" /\ c[i + 2] = "q" /\ c[i + 3] = ">"

\* index i of c is within a backquote
InBacktick(c, i) == \E k \in 0..(Len(Backtick) - 1) : IsBq(c, i - k)

RECURSIVE Concat(_, _, _)
\* the texts parts[lo..hi] one after the other
Concat(parts, lo, hi) ==
    IF lo > hi THEN ""
    ELSE IF lo = hi THEN parts[lo]
    ELSE Concat(parts, lo, (lo + hi) \div 2) \o Concat(parts, (lo + hi) \div 2 + 1, hi)

\* the characters c with the letters of table replaced
MapCase(c, table) ==
    Concat([i \in 1..Len(c) |->
               IF c[i] \in DOMAIN table /\ ~InBacktick(c, i) THEN table[c[i]] ELSE c[i]],
           1, Len(c))

\* strings.ToUpper
ToUpper(s) == MapCase(Chars(s), UpperTable)

\* strings.ToLower
ToLower(s) == MapCase(Chars(s), LowerTable)

\* strings.EqualFold
EqualFold(a, b) == ToLower(a) = ToLower(b)

\* strings.HasPrefix
HasPrefix(s, prefix) ==
    Len(s) >= Len(prefix) /\ SubSeq(s, 1, Len(prefix)) = prefix

\* strings.HasSuffix
HasSuffix(s, suffix) ==
    Len(s) >= Len(suffix) /\ SubSeq(s, Len(s) - Len(suffix) + 1, Len(s)) = suffix

\* strings.Index + 1: where sub first starts in s, 0 when it does not occur
IndexOf(s, sub) ==
    FirstOf({i \in 1..(Len(s) - Len(sub) + 1) : SubSeq(s, i, i + Len(sub) - 1) = sub})

\* strings.Contains
Contains(s, sub) == Len(sub) = 0 \/ IndexOf(s, sub) # 0

RECURSIVE ReplaceAll(_, _, _)
ReplaceAt(s, old, new, at) ==
    IF at = 0 THEN s
    ELSE SubSeq(s, 1, at - 1) \o new
         \o ReplaceAll(SubSeq(s, at + Len(old), Len(s)), old, new)

\* strings.ReplaceAll, old not empty
ReplaceAll(s, old, new) == ReplaceAt(s, old, new, IndexOf(s, old))

\* the white space of unicode.IsSpace a text of the model can hold
Whitespace == {" ", "\t", "\n", "\r", "\f"}

TrimBetween(s, first, last) == IF first = 0 THEN "" ELSE SubSeq(s, first, last)

TrimChars(s, c) ==
    TrimBetween(s, FirstOf({i \in 1..Len(c) : c[i] \notin Whitespace}),
                LastOf({i \in 1..Len(c) : c[i] \notin Whitespace}))

\* strings.TrimSpace
TrimSpace(s) == TrimChars(s, Chars(s))

ExtFrom(path, c, dot, sep) == IF dot > sep THEN SubSeq(path, dot, Len(path)) ELSE ""

ExtOfChars(path, c) ==
    ExtFrom(path, c, LastOf({i \in 1..Len(c) : c[i] = "."}),
            LastOf({i \in 1..Len(c) : c[i] = "/"}))

\* filepath.Ext: from the last dot of the last path element
Ext(path) == ExtOfChars(path, Chars(path))

DigitValue(d) == CHOOSE n \in 0..9 : ToString(n) = d

RECURSIVE Atoi(_)
\* strconv.Atoi of a text of digits
Atoi(s) ==
    IF Len(s) = 0 THEN 0
    ELSE Atoi(SubSeq(s, 1, Len(s) - 1)) * 10 + DigitValue(SubSeq(s, Len(s), Len(s)))

\* strconv.Itoa
Itoa(n) == ToString(n)

\* the lines bufio.Scanner reads from a text: split at "\n", the "\r" before
\* it dropped, no empty line after the last "\n"
LineOf(s, from, to) ==
    IF to >= from /\ SubSeq(s, to, to) = "\r" THEN SubSeq(s, from, to - 1)
    ELSE SubSeq(s, from, to)

LinesAt(s, breaks) ==
    [k \in 1..(Cardinality(breaks)
               + (IF breaks = {} \/ LastOf(breaks) < Len(s) THEN 1 ELSE 0)) |->
        LineOf(s, IF k = 1 THEN 1 ELSE NthOf(breaks, k - 1) + 1,
               IF k > Cardinality(breaks) THEN Len(s) ELSE NthOf(breaks, k) - 1)]

ScanLinesOf(s, c) ==
    IF s = "" THEN <<>> ELSE LinesAt(s, {i \in 1..Len(c) : c[i] = "\n"})

ScanLines(s) == ScanLinesOf(s, Chars(s))

\* ------------------------------------------------------------------------
\* The lexer of the TiDB parser: text -> words.  Comments and white space
\* separate words; a quoted string and a quoted name are one word each.
\* ------------------------------------------------------------------------
\* what opens at index i: a string, a quoted name, a comment, or nothing
OpenerAt(c, i) ==
    IF c[i] \in {"'", "\""} THEN "str"
    ELSE IF IsBq(c, i) THEN "id"
    ELSE IF c[i] = "#" THEN "line"
    ELSE IF /\ c[i] = "-" /\ i < Len(c) /\ c[i + 1] = "-"
            /\ (i + 2 > Len(c) \/ c[i + 2] \in Whitespace)
    THEN "line"
    ELSE IF c[i] = "/" /\ i < Len(c) /\ c[i + 1] = "*" THEN "block"
    ELSE ""

RECURSIVE StrClose(_, _, _)
StrCloseAt(c, q, k) ==
    IF k = 0 THEN 0
    ELSE IF c[k] = "\\" THEN StrClose(c, q, k + 2)
    ELSE IF k < Len(c) /\ c[k + 1] = q THEN StrClose(c, q, k + 2)
    ELSE k

\* index of the quote that closes a string (0: none); a doubled quote and a
\* character after a backslash do not close it
StrClose(c, q, from) ==
    StrCloseAt(c, q, FirstOf({k \in from..Len(c) : c[k] \in {q, "\\"}}))

RECURSIVE IdClose(_, _)
IdCloseAt(c, k) ==
    IF k = 0 THEN 0
    ELSE IF IsBq(c, k + 4) THEN IdClose(c, k + 8)
    ELSE k + 3

\* index of the last character of the backquote that closes a quoted name
IdClose(c, from) == IdCloseAt(c, FirstOf({k \in from..Len(c) : IsBq(c, k)}))

\* index the region opened at i ends at, 0 when it is not closed
CloseOf(c, i, kind) ==
    CASE kind = "str" -> StrClose(c, c[i], i + 1)
      [] kind = "id" -> IdClose(c, i + 4)
      [] kind = "line" ->
            IF \E j \in i..Len(c) : c[j] = "\n"
            THEN FirstOf({j \in i..Len(c) : c[j] = "\n"}) ELSE Len(c)
      [] OTHER -> FirstOf({j \in (i + 3)..Len(c) : c[j - 1] = "*" /\ c[j] = "/"})

RECURSIVE Regions(_, _)
RegionTo(c, o, kind, close) ==
    <<[lo |-> o, hi |-> IF close = 0 THEN Len(c) ELSE close, kind |-> kind,
       closed |-> close # 0]>>
    \o Regions(c, (IF close = 0 THEN Len(c) ELSE close) + 1)

RegionsFrom(c, o) ==
    IF o = 0 THEN <<>> ELSE RegionTo(c, o, OpenerAt(c, o), CloseOf(c, o, OpenerAt(c, o)))

\* the strings, quoted names and comments of the text from index from on
Regions(c, from) == RegionsFrom(c, FirstOf({i \in from..Len(c) : OpenerAt(c, i) # ""}))

Covered(regions) == UNION {r.lo..r.hi : r \in SeqRange(regions)}

\* the regions that are words: strings, quoted names, and a comment that is
\* not closed (the lexer reports it)
WordRegions(regions) ==
    {r \in SeqRange(regions) : r.kind \in {"str", "id"} \/ ~r.closed}

WordChars == Letters \cup Digits \cup {"_", "$", "@"}

Pairs == {<<"<", "=">>, <<">", "=">>, <<"<", ">">>, <<"!", "=">>}

\* a character of a name or a number; a dot between digits is one
IsWord(c, cov, i) ==
    /\ i \notin cov
    /\ \/ c[i] \in WordChars
       \/ /\ c[i] = "." /\ i > 1 /\ i < Len(c)
          /\ c[i - 1] \in Digits /\ c[i + 1] \in Digits
          /\ (i - 1) \notin cov /\ (i + 1) \notin cov

IsPair(c, cov, i) ==
    /\ i >= 1 /\ i < Len(c) /\ i \notin cov /\ (i + 1) \notin cov
    /\ <<c[i], c[i + 1]>> \in Pairs

\* a word starts at index i
IsStart(c, cov, starts, i) ==
    \/ i \in starts
    \/ /\ i \notin cov
       /\ c[i] \notin Whitespace
       /\ IF IsWord(c, cov, i) THEN ~(i > 1 /\ IsWord(c, cov, i - 1))
          ELSE ~(i > 1 /\ IsPair(c, cov, i - 1))

\* index the word starting at i ends at
TokenEnd(c, cov, regions, i) ==
    IF i \in cov THEN (CHOOSE r \in SeqRange(regions) : r.lo = i).hi
    ELSE IF IsWord(c, cov, i)
    THEN IF \A j \in (i + 1)..Len(c) : IsWord(c, cov, j) THEN Len(c)
         ELSE FirstOf({j \in (i + 1)..Len(c) : ~IsWord(c, cov, j)}) - 1
    ELSE IF IsPair(c, cov, i) THEN i + 1
    ELSE i

RECURSIVE TokensIn(_, _, _, _, _, _, _)
\* the words that start at the indices lo..hi
TokensIn(s, c, cov, starts, regions, lo, hi) ==
    IF lo > hi THEN <<>>
    ELSE IF lo = hi
    THEN IF IsStart(c, cov, starts, lo)
         THEN <<SubSeq(s, lo, TokenEnd(c, cov, regions, lo))>> ELSE <<>>
    ELSE TokensIn(s, c, cov, starts, regions, lo, (lo + hi) \div 2)
         \o TokensIn(s, c, cov, starts, regions, (lo + hi) \div 2 + 1, hi)

ScanWith(s, c, regions) ==
    TokensIn(s, c, Covered(regions), {r.lo : r \in WordRegions(regions)}, regions,
             1, Len(s))

ScanChars(s, c) == ScanWith(s, c, Regions(c, 1))

\* the words of a text
Scan(s) == ScanChars(s, Chars(s))

\* ------------------------------------------------------------------------
\* Words -> tokens of the grammar: keywords are read without regard to case,
\* a keyword of several words is one token, "(", n, ")" after a type is one
\* length token
\* ------------------------------------------------------------------------
\* charset.GetCharsetInfo knows these names
Charsets == {"utf8mb4", "utf8", "latin1", "ascii", "binary", "gbk"}

Collations ==
    {"utf8mb4_bin", "utf8mb4_general_ci", "utf8mb4_unicode_ci", "utf8_bin",
     "utf8_general_ci", "latin1_bin", "ascii_bin", "gbk_bin", "binary"}

UnspecifiedLength == -1

\* type keyword of the grammar -> mysql type code
TypeKeywords ==
    {"TINYINT", "SMALLINT", "INT", "INTEGER", "MEDIUMINT", "BIGINT", "BOOL",
     "BOOLEAN", "FLOAT", "DOUBLE", "REAL", "DECIMAL", "NUMERIC", "DATE",
     "DATETIME", "TIMESTAMP", "TIME", "YEAR", "CHAR", "VARCHAR", "TINYBLOB",
     "BLOB", "MEDIUMBLOB", "LONGBLOB", "TINYTEXT", "TEXT", "MEDIUMTEXT",
     "LONGTEXT", "JSON", "ENUM", "SET", "BIT", "GEOMETRY"}

TypeCodeOf(t) ==
    CASE t \in {"TINYINT", "BOOL", "BOOLEAN"} -> "TypeTiny"
      [] t = "SMALLINT" -> "TypeShort"
      [] t \in {"INT", "INTEGER"} -> "TypeLong"
      [] t = "MEDIUMINT" -> "TypeInt24"
      [] t = "BIGINT" -> "TypeLonglong"
      [] t = "FLOAT" -> "TypeFloat"
      [] t \in {"DOUBLE", "REAL"} -> "TypeDouble"
      [] t \in {"DECIMAL", "NUMERIC"} -> "TypeNewDecimal"
      [] t = "DATE" -> "TypeDate"
      [] t = "DATETIME" -> "TypeDatetime"
      [] t = "TIMESTAMP" -> "TypeTimestamp"
      [] t = "TIME" -> "TypeDuration"
      [] t = "YEAR" -> "TypeYear"
      [] t = "CHAR" -> "TypeString"
      [] t = "VARCHAR" -> "TypeVarchar"
      [] t \in {"TINYBLOB", "TINYTEXT"} -> "TypeTinyBlob"
      [] t \in {"BLOB", "TEXT"} -> "TypeBlob"
      [] t \in {"MEDIUMBLOB", "MEDIUMTEXT"} -> "TypeMediumBlob"
      [] t \in {"LONGBLOB", "LONGTEXT"} -> "TypeLongBlob"
      [] t = "JSON" -> "TypeJSON"
      [] t = "ENUM" -> "TypeEnum"
      [] t = "SET" -> "TypeSet"
      [] t = "BIT" -> "TypeBit"
      [] t = "GEOMETRY" -> "TypeGeometry"
      [] OTHER -> "TypeUnspecified"

\* the types whose values are a list of strings
ElemTypes == {"ENUM", "SET"}

\* the types that take CHARACTER SET and COLLATE
TextTypes ==
    {"CHAR", "VARCHAR", "TINYTEXT", "TEXT", "MEDIUMTEXT", "LONGTEXT", "ENUM", "SET"}

\* the types the parser gives the binary charset and collation
BinaryTypes == {"TINYBLOB", "BLOB", "MEDIUMBLOB", "LONGBLOB", "JSON"}

\* functions the grammar accepts without an argument list
NiladicFuncs == {"CURRENT_TIMESTAMP"}

\* the keywords of several words, and the words read as another keyword
Phrases ==
    { <<<<"CREATE", "TABLE">>, "CREATE TABLE">>,
      <<<<"ALTER", "TABLE">>, "ALTER TABLE">>,
      <<<<"DROP", "TABLE">>, "DROP TABLE">>,
      <<<<"CREATE", "INDEX">>, "CREATE INDEX">>,
      <<<<"INSERT", "INTO">>, "INSERT INTO">>,
      <<<<"DELETE", "FROM">>, "DELETE FROM">>,
      <<<<"LOCK", "TABLES">>, "LOCK TABLES">>,
      <<<<"UNLOCK", "TABLES">>, "UNLOCK TABLES">>,
      <<<<"ADD", "COLUMN">>, "ADD COLUMN">>,
      <<<<"MODIFY", "COLUMN">>, "MODIFY COLUMN">>,
      <<<<"CHANGE", "COLUMN">>, "CHANGE COLUMN">>,
      <<<<"DEFAULT", "CHARACTER", "SET">>, "DEFAULT CHARACTER SET">>,
      <<<<"DEFAULT", "CHARSET">>, "DEFAULT CHARACTER SET">>,
      <<<<"DEFAULT", "COLLATE">>, "DEFAULT COLLATE">>,
      <<<<"CHARACTER", "SET">>, "CHARACTER SET">>,
      <<<<"CHARSET">>, "CHARACTER SET">>,
      <<<<"NOT", "NULL">>, "NOT NULL">>,
      <<<<"PARTITION", "BY">>, "PARTITION BY">>,
      <<<<"GROUP", "BY">>, "GROUP BY">>,
      <<<<"ORDER", "BY">>, "ORDER BY">>,
      <<<<"PRIMARY", "KEY">>, "PRIMARY KEY">>,
      <<<<"FOREIGN", "KEY">>, "FOREIGN KEY">>,
      <<<<"CONSTRAINT", "FOREIGN", "KEY">>, "FOREIGN KEY">>,
      <<<<"IF", "EXISTS">>, "IF EXISTS">>,
      <<<<"LEFT", "JOIN">>, "LEFT JOIN">>,
      <<<<"LEFT", "OUTER", "JOIN">>, "LEFT JOIN">>,
      <<<<"RIGHT", "JOIN">>, "RIGHT JOIN">>,
      <<<<"RIGHT", "OUTER", "JOIN">>, "RIGHT JOIN">>,
      <<<<"INNER", "JOIN">>, "JOIN">>,
      <<<<"CROSS", "JOIN">>, "JOIN">>,
      <<<<"START", "TRANSACTION">>, "BEGIN">>,
      <<<<"SHOW", "TABLES">>, "SHOW TABLES">>,
      <<<<"SHOW", "DATABASES">>, "SHOW DATABASES">> }

\* the other keywords and the operators of the grammar
Keywords ==
    {"SELECT", "FROM", "READ", "ENGINE", "COLLATE", "AUTO_INCREMENT",
     "DISTINCT", "OVER", "VALUES", "UPDATE", "SET", "ON", "WHERE", "HAVING",
     "ASC", "DESC", "LIMIT", "AS", "JOIN", "AND", "OR", "CASE", "WHEN",
     "THEN", "ELSE", "END", "REFERENCES", "DEFAULT", "NULL", "TRUE", "FALSE",
     "TABLE", "USE", "BEGIN", "COMMIT", "ROLLBACK", "SEPARATOR",
     "(", ")", ",", ";", ".", "*", "+", "-", "/", "%",
     "=", ">", "<", ">=", "<=", "<>", "!="}

\* the words the lexer reads without regard to case
KeywordWords ==
    Keywords \cup TypeKeywords \cup NiladicFuncs
    \cup UNION {SeqRange(p[1]) : p \in Phrases}

PhraseHeads == {p[1][1] : p \in Phrases}

FoldCase(w) ==
    [i \in 1..Len(w) |->
        IF ToUpper(w[i]) \in KeywordWords THEN ToUpper(w[i]) ELSE w[i]]

\* a text of digits
IsDigits(t) == t # "" /\ SeqRange(Chars(t)) \subseteq Digits

\* a number as the lexer reads it: digits, or digits "." digits
IsNumber(t) ==
    \/ IsDigits(t)
    \/ /\ IndexOf(t, ".") > 1 /\ IndexOf(t, ".") < Len(t)
       /\ IsDigits(SubSeq(t, 1, IndexOf(t, ".") - 1))
       /\ IsDigits(SubSeq(t, IndexOf(t, ".") + 1, Len(t)))

\* a quoted string that is closed
IsString(t) ==
    /\ Len(t) >= 2
    /\ SubSeq(t, 1, 1) \in {"'", "\""}
    /\ StrClose(Chars(t), SubSeq(t, 1, 1), 2) = Len(t)

\* _charset before a string
IsIntroducer(t) ==
    Len(t) > 1 /\ SubSeq(t, 1, 1) = "_" /\ ToLower(SubSeq(t, 2, Len(t))) \in Charsets

\* a name in backquotes
IsQuoted(t) ==
    Len(t) > 2 * Len(Backtick) /\ HasPrefix(t, Backtick) /\ HasSuffix(t, Backtick)

IsBare(t) ==
    /\ t # ""
    /\ SeqRange(Chars(t)) \subseteq (Letters \cup Digits \cup {"_", "$"})
    /\ ~IsDigits(t)
    /\ t \notin KeywordWords
    /\ ~IsIntroducer(t)

\* an identifier: a name in backquotes, or a word that is no keyword
IsIdent(t) == IsQuoted(t) \/ IsBare(t)

\* the name an identifier stands for
NameOf(t) ==
    IF IsQuoted(t)
    THEN ReplaceAll(SubSeq(t, Len(Backtick) + 1, Len(t) - Len(Backtick)),
                    Backtick \o Backtick, Backtick)
    ELSE t

\* the character a backslash escape stands for
EscapeOf(ch) ==
    CASE ch = "n" -> "\n"
      [] ch = "t" -> "\t"
      [] ch = "r" -> "\r"
      [] ch \in {"%", "_"} -> "\\" \o ch
      [] OTHER -> ch

RECURSIVE Unescape(_, _)
UnescapeAt(s, q, k) ==
    IF k = 0 THEN s
    ELSE SubSeq(s, 1, k - 1)
         \o (IF SubSeq(s, k, k) = "\\" THEN EscapeOf(SubSeq(s, k + 1, k + 1)) ELSE q)
         \o Unescape(SubSeq(s, k + 2, Len(s)), q)

\* the text between the quotes q, its escapes read
Unescape(s, q) ==
    UnescapeAt(s, q, FirstOf({k \in 1..(Len(s) - 1) :
                                \/ SubSeq(s, k, k) = "\\"
                                \/ SubSeq(s, k, k + 1) = q \o q}))

\* the value of a string token
StringOf(t) == Unescape(SubSeq(t, 2, Len(t) - 1), SubSeq(t, 1, 1))

\* "(n)" or "(n,m)": a length written after a type
IsLenToken(t) == Len(t) >= 3 /\ SubSeq(t, 1, 1) = "(" /\ SubSeq(t, Len(t), Len(t)) = ")"

LenOf(t) ==
    Atoi(SubSeq(t, 2, IF Contains(t, ",") THEN IndexOf(t, ",") - 1 ELSE Len(t) - 1))

\* the number of decimals a length token gives
DecimalOf(t) ==
    IF Contains(t, ",") THEN Atoi(SubSeq(t, IndexOf(t, ",") + 1, Len(t) - 1))
    ELSE UnspecifiedLength

Suffix(w, i) == SubSeq(w, i, Len(w))

\* the phrases the words of w start with
PhrasesAt(w) ==
    IF w = <<>> \/ w[1] \notin PhraseHeads THEN {}
    ELSE {p \in Phrases : Len(p[1]) <= Len(w) /\ SubSeq(w, 1, Len(p[1])) = p[1]}

LongestOf(ps) == CHOOSE p \in ps : \A q \in ps : Len(q[1]) <= Len(p[1])

\* w starts with a type and its length: TYPE ( n ) or TYPE ( n , m )
HasLength(w) ==
    /\ Len(w) >= 4
    /\ w[1] \in TypeKeywords \ ElemTypes
    /\ w[2] = "(" /\ IsDigits(w[3])
    /\ \/ w[4] = ")"
       \/ Len(w) >= 6 /\ w[4] = "," /\ IsDigits(w[5]) /\ w[6] = ")"

\* the number of words the token at the head of w is written with
SpanOf(w) ==
    IF PhrasesAt(w) # {} THEN Len(LongestOf(PhrasesAt(w))[1])
    ELSE IF HasLength(w) THEN IF w[4] = ")" THEN 4 ELSE 6
    ELSE 1

\* the head of w is read as a token other than its first word
IsMerged(w) == PhrasesAt(w) # {} \/ HasLength(w)

\* the tokens the first words of w are read as
TokensOf(w) ==
    IF PhrasesAt(w) # {} THEN <<LongestOf(PhrasesAt(w))[2]>>
    ELSE IF w[4] = ")" THEN <<w[1], "(" \o w[3] \o ")">>
    ELSE <<w[1], "(" \o w[3] \o "," \o w[5] \o ")">>

RECURSIVE MergePhrases(_)
\* at: the first index of w a merged token starts at (0: none); the words
\* before it are tokens as they are
MergeFrom(w, at) ==
    IF at = 0 THEN w
    ELSE SubSeq(w, 1, at - 1)
         \o TokensOf(Suffix(w, at))
         \o MergePhrases(Suffix(w, at + SpanOf(Suffix(w, at))))

\* joins the words of a keyword, and a length written after a type, into the
\* one token the grammar reads, from left to right
MergePhrases(w) == MergeFrom(w, FirstOf({i \in 1..Len(w) : IsMerged(Suffix(w, i))}))

\* the lexer: the token sequence the grammar reads
Lex(sql) == MergePhrases(FoldCase(Scan(sql)))

\* ------------------------------------------------------------------------
\* AST constructors
\* ------------------------------------------------------------------------
ParseFail == [kind |-> "ParseFail"]

\* the nil statement / nil node
Nil == [kind |-> "nil"]

\* types.NewFieldType
NewFieldType(tp) ==
    [tp |-> tp, flen |-> UnspecifiedLength, decimal |-> UnspecifiedLength,
     elems |-> <<>>, charset |-> "", collate |-> ""]

TableName(n) == [kind |-> "TableName", Name |-> n]

\* ast.ColumnName; Table = "": the name is not qualified
ColumnName(n) == [kind |-> "ColumnName", Table |-> "", Name |-> n]

QualifiedName(t, n) == [kind |-> "ColumnName", Table |-> t, Name |-> n]

\* ast.ColumnOption; Expr = Nil: the option has no expression
ColumnOption(tp) == [kind |-> "ColumnOption", Tp |-> tp, Expr |-> Nil]

DefaultValue(expr) ==
    [kind |-> "ColumnOption", Tp |-> "ColumnOptionDefaultValue", Expr |-> expr]

\* ast.ColumnDef; tp = Nil: the column has no type
ColumnDef(name, tp, opts) ==
    [kind |-> "ColumnDef", Name |-> ColumnName(name), Tp |-> tp, Options |-> opts]

TableOptionEngine == 1

TableOptionCharacterSet == 2

TableOptionCollate == 3

TableOption(tp, v) == [kind |-> "TableOption", Tp |-> tp, StrValue |-> v]

NewCIStr(s) == [O |-> s, L |-> ToLower(s)]

\* ast.ColumnPosition of a column that is added, modified or changed alone;
\* the model's positions are all ColumnPositionNone
ColumnPosition == [kind |-> "ColumnPosition"]

\* ast.AlterTableSpec; pos = Nil: the specification has no column position
AlterTableSpec(tp, cols, opts, old, pos) ==
    [kind |-> "AlterTableSpec", Tp |-> tp, NewColumns |-> cols,
     Options |-> opts, OldColumnName |-> old, Position |-> pos]

\* test_driver.ValueExpr: the kind of its datum, the charset of its type and
\* its value as a text
ValueExpr(datum, charset, val) ==
    [kind |-> "ValueExpr", datum |-> datum, charset |-> charset, val |-> val]

ColumnNameExpr(name) == [kind |-> "ColumnNameExpr", Name |-> name]

FuncCallExpr(name, args) ==
    [kind |-> "FuncCallExpr", FnName |-> NewCIStr(name), Args |-> args]

BinaryOperationExpr(op, l, r) ==
    [kind |-> "BinaryOperationExpr", Op |-> op, L |-> l, R |-> r]

UnaryOperationExpr(op, v) == [kind |-> "UnaryOperationExpr", Op |-> op, V |-> v]

VariableExpr(name, isSystem) ==
    [kind |-> "VariableExpr", Name |-> name, IsSystem |-> isSystem]

ParenthesesExpr(expr) == [kind |-> "ParenthesesExpr", Expr |-> expr]

WhenClause(expr, result) == [kind |-> "WhenClause", Expr |-> expr, Result |-> result]

CaseExpr(whens, alt) ==
    [kind |-> "CaseExpr", Value |-> Nil, WhenClauses |-> whens, ElseClause |-> alt]

ByItem(expr) == [kind |-> "ByItem", Expr |-> expr, Desc |-> FALSE]

OrderItem(expr, desc) == [kind |-> "ByItem", Expr |-> expr, Desc |-> desc]

PartitionByClause(items) == [kind |-> "PartitionByClause", Items |-> items]

\* ast.WindowSpec; partitionBy = Nil: the specification has no PARTITION BY
WindowSpec(partitionBy) == [kind |-> "WindowSpec", PartitionBy |-> partitionBy]

\* ast.SelectField; a wild card field has no expression
SelectField(wild, expr, as) ==
    [kind |-> "SelectField", WildCard |-> wild, Expr |-> expr, AsName |-> as]

FieldList(fields) == [kind |-> "FieldList", Fields |-> fields]

TableSource(src, as) == [kind |-> "TableSource", Source |-> src, AsName |-> as]

OnCondition(expr) == [kind |-> "OnCondition", Expr |-> expr]

\* ast.Join; right = Nil: a single table; on = Nil: no ON condition
Join(left, right, tp, on) ==
    [kind |-> "Join", Left |-> left, Right |-> right, Tp |-> tp, On |-> on]

TableRefsClause(join) == [kind |-> "TableRefsClause", TableRefs |-> join]

\* the table reference of INSERT, UPDATE and DELETE: a join of one table
OneTable(name) == TableRefsClause(Join(TableSource(TableName(name), ""), Nil, "", Nil))

GroupByClause(items) == [kind |-> "GroupByClause", Items |-> items]

HavingClause(expr) == [kind |-> "HavingClause", Expr |-> expr]

OrderByClause(items) == [kind |-> "OrderByClause", Items |-> items]

Limit(count) == [kind |-> "Limit", Count |-> count]

Assignment(col, expr) == [kind |-> "Assignment", Column |-> col, Expr |-> expr]

IndexPartSpecification(col) == [kind |-> "IndexPartSpecification", Column |-> col]

\* ast.ReferenceDef; the parser always builds its OnDelete and OnUpdate nodes
ReferenceDef(table, parts) ==
    [kind |-> "ReferenceDef", Table |-> table, IndexPartSpecifications |-> parts,
     OnDelete |-> [kind |-> "OnDeleteOpt"], OnUpdate |-> [kind |-> "OnUpdateOpt"]]

\* ast.Constraint; refer = Nil: not a foreign key
Constraint(tp, keys, refer) ==
    [kind |-> "Constraint", Tp |-> tp, Keys |-> keys, Refer |-> refer]

\* ------------------------------------------------------------------------
\* ParseSQL: text -> statements (TiDB parser, reduced grammar)
\* ------------------------------------------------------------------------
FirstIndexOf(toks, t) ==
    IF \E i \in 1..Len(toks) : toks[i] = t
    THEN CHOOSE i \in 1..Len(toks) : toks[i] = t /\ \A j \in 1..(i - 1) : toks[j] # t
    ELSE 0

AnyFail(nodes) == \E i \in 1..Len(nodes) : nodes[i] = ParseFail

\* nesting depth of position i: brackets and CASE ... END opened before it
Depth(toks, i) ==
    Cardinality({j \in 1..(i - 1) : toks[j] \in {"(", "CASE"}})
    - Cardinality({j \in 1..(i - 1) : toks[j] \in {")", "END"}})

TopIndices(toks, ops) ==
    {i \in 1..Len(toks) : toks[i] \in ops /\ Depth(toks, i) = 0}

FirstTop(toks, ops) == FirstOf(TopIndices(toks, ops))

LastTop(toks, ops) == LastOf(TopIndices(toks, ops))

\* index of the ")" that closes the "(" at index open (0: there is none)
MatchClose(toks, open) ==
    FirstOf({i \in (open + 1)..Len(toks) :
                /\ toks[i] = ")"
                /\ Cardinality({j \in open..i : toks[j] = "("})
                   = Cardinality({j \in open..i : toks[j] = ")"})})

CompareOps == {"=", ">", "<", ">=", "<=", "<>", "!="}

AddOps == {"+", "-"}

MulOps == {"*", "/", "%"}

\* the tokens an operand cannot end with
OperatorTokens == CompareOps \cup AddOps \cup MulOps \cup {"AND", "OR"}

\* opcode.Op of an operator token; "<>" and "!=" are the same operator
OpOf(t) == IF t = "<>" THEN "!=" ELSE t

AggFuncs == {"group_concat", "count", "sum", "avg", "max", "min"}

\* the parser's connection charset (mysql.DefaultCharset)
DefaultCharset == "utf8mb4"

\* a literal token: a string, a number, TRUE, FALSE or NULL
IsLiteral(t) == IsString(t) \/ IsNumber(t) \/ t \in {"TRUE", "FALSE", "NULL"}

\* the value expression of a literal token; a string without an introducer
\* takes the connection charset
LiteralOf(t, charset) ==
    IF IsString(t) THEN ValueExpr("string", charset, StringOf(t))
    ELSE IF IsDigits(t) THEN ValueExpr("int", "", Itoa(Atoi(t)))
    ELSE IF IsNumber(t) THEN ValueExpr("decimal", "", t)
    ELSE IF t = "NULL" THEN ValueExpr("null", "", "NULL")
    ELSE ValueExpr("bool", "", t)

RECURSIVE ParseExpr(_)
RECURSIVE ParsePrimary(_)
ParseExprList(toks) ==
    LET parts == SplitTop(toks, ",")
    IN [i \in 1..Len(parts) |-> ParseExpr(parts[i])]

\* each node below is built from its parsed parts: ParseFail when a part failed
ParenOf(inner) == IF inner = ParseFail THEN ParseFail ELSE ParenthesesExpr(inner)

UnaryOf(op, v) == IF v = ParseFail THEN ParseFail ELSE UnaryOperationExpr(op, v)

CaseOf(ok, cond, res, alt) ==
    IF ~ok \/ cond = ParseFail \/ res = ParseFail \/ alt = ParseFail THEN ParseFail
    ELSE CaseExpr(<<WhenClause(cond, res)>>, alt)

\* CASE WHEN cond THEN res [ELSE alt] END, inner the tokens from WHEN up to END
ParseCase(inner, thenAt, elseAt) ==
    CaseOf(/\ TopIndices(inner, {"WHEN"}) = {1}
           /\ thenAt # 0
           /\ (elseAt = 0 \/ elseAt > thenAt),
           ParseExpr(SubSeq(inner, 2, thenAt - 1)),
           ParseExpr(SubSeq(inner, thenAt + 1,
                            IF elseAt = 0 THEN Len(inner) ELSE elseAt - 1)),
           IF elseAt = 0 THEN Nil ELSE ParseExpr(SubSeq(inner, elseAt + 1, Len(inner))))

\* the items of OVER ( [PARTITION BY exprs] )
ParsePartition(inner) ==
    IF inner = <<>> THEN <<>>
    ELSE IF Len(inner) >= 2 /\ inner[1] = "PARTITION BY" THEN ParseExprList(Tail(inner))
    ELSE <<ParseFail>>

\* an aggregate function with OVER is a window function of the same arguments
WindowOf(call, items) ==
    IF call.kind # "AggregateFuncExpr" \/ AnyFail(items) THEN ParseFail
    ELSE [kind |-> "WindowFuncExpr", Name |-> call.F, Args |-> call.Args,
          Distinct |-> call.Distinct,
          Spec |-> WindowSpec(IF items = <<>> THEN Nil
                              ELSE PartitionByClause(
                                       [i \in 1..Len(items) |-> ByItem(items[i])]))]

\* call OVER ( ... ), k the index of OVER
ParseWindow(toks, k) ==
    WindowOf(ParseExpr(SubSeq(toks, 1, k - 1)),
             ParsePartition(SubSeq(toks, k + 2, Len(toks) - 1)))

\* GROUP_CONCAT takes its separator as its last argument: "," when none is
\* written
CallOf(name, isAgg, distinct, args, sep) ==
    IF AnyFail(args) \/ (distinct /\ ~isAgg) \/ (isAgg /\ args = <<>>) \/ sep = ParseFail
    THEN ParseFail
    ELSE IF isAgg
    THEN [kind |-> "AggregateFuncExpr", F |-> name,
          Args |-> IF sep = Nil THEN args ELSE Append(args, sep),
          Distinct |-> distinct, Order |-> Nil]
    ELSE FuncCallExpr(name, args)

\* the arguments of a call; COUNT(*) counts the constant 1
ParseArgs(star, argToks) ==
    IF star THEN <<ValueExpr("int", "", "1")>>
    ELSE IF argToks = <<>> THEN <<>>
    ELSE ParseExprList(argToks)

\* the separator of GROUP_CONCAT(args [SEPARATOR 'text']), sepAt the index of
\* SEPARATOR in inner (0: none); Nil for the other functions
ParseSeparator(name, inner, sepAt) ==
    IF ToLower(name) # "group_concat" THEN IF sepAt = 0 THEN Nil ELSE ParseFail
    ELSE IF sepAt = 0 THEN ValueExpr("string", "", ",")
    ELSE IF sepAt = Len(inner) - 1 /\ IsString(inner[Len(inner)])
    THEN ValueExpr("string", "", StringOf(inner[Len(inner)]))
    ELSE ParseFail

ParseCallTo(name, inner, distinct, sepAt) ==
    CallOf(name, ToLower(name) \in AggFuncs, distinct,
           ParseArgs(inner = <<"*">> /\ ToLower(name) = "count",
                     SubSeq(inner, IF distinct THEN 2 ELSE 1,
                            IF sepAt = 0 THEN Len(inner) ELSE sepAt - 1)),
           ParseSeparator(name, inner, sepAt))

\* name ( [DISTINCT] args ), inner the tokens between the brackets
ParseCall(name, inner, distinct) ==
    ParseCallTo(name, inner, distinct, FirstTop(inner, {"SEPARATOR"}))

\* a system variable @@name is read in lower case, a user variable @name as
\* it is written
ParseVariable(t) ==
    IF HasPrefix(t, "@@") /\ IsBare(SubSeq(t, 3, Len(t)))
    THEN VariableExpr(ToLower(SubSeq(t, 3, Len(t))), TRUE)
    ELSE IF ~HasPrefix(t, "@@") /\ IsBare(SubSeq(t, 2, Len(t)))
    THEN VariableExpr(SubSeq(t, 2, Len(t)), FALSE)
    ELSE ParseFail

\* an operand: a name, a literal, a call, a bracketed or a CASE expression
ParsePrimary(toks) ==
    IF Len(toks) = 1 /\ IsIdent(toks[1])
    THEN ColumnNameExpr(ColumnName(NameOf(toks[1])))
    ELSE IF Len(toks) = 3 /\ IsIdent(toks[1]) /\ toks[2] = "." /\ IsIdent(toks[3])
    THEN ColumnNameExpr(QualifiedName(NameOf(toks[1]), NameOf(toks[3])))
    ELSE IF Len(toks) = 1 /\ IsLiteral(toks[1])
    THEN LiteralOf(toks[1], DefaultCharset)
    ELSE IF Len(toks) = 2 /\ IsIntroducer(toks[1]) /\ IsString(toks[2])
    THEN LiteralOf(toks[2], ToLower(SubSeq(toks[1], 2, Len(toks[1]))))
    ELSE IF Len(toks) = 1 /\ toks[1] \in NiladicFuncs
    THEN FuncCallExpr(toks[1], <<>>)
    ELSE IF Len(toks) = 1 /\ HasPrefix(toks[1], "@")
    THEN ParseVariable(toks[1])
    ELSE IF Len(toks) = 2 /\ toks[1] \in {"@", "@@"} /\ IsQuoted(toks[2])
    THEN VariableExpr(IF toks[1] = "@@" THEN ToLower(NameOf(toks[2]))
                      ELSE NameOf(toks[2]),
                      toks[1] = "@@")
    ELSE IF Len(toks) >= 2 /\ toks[1] = "-"
    THEN UnaryOf("-", ParsePrimary(Tail(toks)))
    ELSE IF Len(toks) >= 3 /\ toks[1] = "(" /\ MatchClose(toks, 1) = Len(toks)
    THEN ParenOf(ParseExpr(SubSeq(toks, 2, Len(toks) - 1)))
    ELSE IF /\ Len(toks) >= 6
            /\ toks[1] = "CASE" /\ toks[2] = "WHEN" /\ toks[Len(toks)] = "END"
    THEN ParseCase(SubSeq(toks, 2, Len(toks) - 1),
                   FirstTop(SubSeq(toks, 2, Len(toks) - 1), {"THEN"}),
                   FirstTop(SubSeq(toks, 2, Len(toks) - 1), {"ELSE"}))
    ELSE IF /\ Len(toks) >= 6
            /\ IsIdent(toks[1])
            /\ FirstIndexOf(toks, "OVER") >= 4
            /\ FirstIndexOf(toks, "OVER") <= Len(toks) - 2
            /\ toks[FirstIndexOf(toks, "OVER") + 1] = "("
            /\ toks[Len(toks)] = ")"
    THEN ParseWindow(toks, FirstIndexOf(toks, "OVER"))
    ELSE IF /\ Len(toks) >= 3
            /\ (IsBare(toks[1]) \/ toks[1] \in NiladicFuncs)
            /\ toks[2] = "("
            /\ MatchClose(toks, 2) = Len(toks)
    THEN ParseCall(toks[1], SubSeq(toks, 3, Len(toks) - 1),
                   Len(toks) > 3 /\ toks[3] = "DISTINCT")
    ELSE ParseFail

BinaryOf(op, l, r) ==
    IF l = ParseFail \/ r = ParseFail THEN ParseFail ELSE BinaryOperationExpr(op, l, r)

\* the last operator of ops at the top of toks with an operand before it
\* (0: none); a sign after an operator belongs to its operand
LastBinary(toks, ops) ==
    LastOf({i \in TopIndices(toks, ops) : i > 1 /\ toks[i - 1] \notin OperatorTokens})

\* the operator an expression splits at (0: none): OR binds weakest, then
\* AND, the comparisons, the sums and the products; operators associate left
OperatorAt(orAt, andAt, cmpAt, addAt, mulAt) ==
    IF orAt > 0 THEN orAt
    ELSE IF andAt > 0 THEN andAt
    ELSE IF cmpAt > 0 THEN cmpAt
    ELSE IF addAt > 0 THEN addAt
    ELSE mulAt

ParseExprAt(toks, k) ==
    IF k = 0 THEN ParsePrimary(toks)
    ELSE BinaryOf(OpOf(toks[k]), ParseExpr(SubSeq(toks, 1, k - 1)),
                  ParseExpr(SubSeq(toks, k + 1, Len(toks))))

ParseExpr(toks) ==
    ParseExprAt(toks, OperatorAt(LastTop(toks, {"OR"}), LastTop(toks, {"AND"}),
                                 LastTop(toks, CompareOps),
                                 LastBinary(toks, AddOps), LastBinary(toks, MulOps)))

\* a column name, qualified by its table or not
ParseColumnName(toks) ==
    IF Len(toks) = 1 /\ IsIdent(toks[1]) THEN ColumnName(NameOf(toks[1]))
    ELSE IF Len(toks) = 3 /\ IsIdent(toks[1]) /\ toks[2] = "." /\ IsIdent(toks[3])
    THEN QualifiedName(NameOf(toks[1]), NameOf(toks[3]))
    ELSE ParseFail

\* the names in the brackets of INSERT, CREATE INDEX and the key constraints
ParseNameList(toks) ==
    LET parts == SplitTop(toks, ",")
    IN [i \in 1..Len(parts) |-> ParseColumnName(parts[i])]

\* the number of tokens the value of DEFAULT is written with (0: none)
DefaultSpan(toks) ==
    IF Len(toks) < 2 THEN 0
    ELSE IF toks[2] \in NiladicFuncs
    THEN IF Len(toks) >= 4 /\ toks[3] = "(" /\ toks[4] = ")" THEN 3 ELSE 1
    ELSE IF IsLiteral(toks[2]) THEN 1
    ELSE IF toks[2] = "-" /\ Len(toks) >= 3 /\ IsNumber(toks[3]) THEN 2
    ELSE IF IsIntroducer(toks[2]) /\ Len(toks) >= 3 /\ IsString(toks[3]) THEN 2
    ELSE 0

\* DEFAULT value: a literal or a function without arguments
ParseDefault(val) ==
    IF val = <<>> THEN ParseFail
    ELSE IF val[1] \in NiladicFuncs THEN FuncCallExpr(val[1], <<>>)
    ELSE ParsePrimary(val)

RECURSIVE ParseColumnOptions(_)
DefaultOf(val, rest) ==
    IF val = ParseFail THEN <<ParseFail>>
    ELSE <<DefaultValue(val)>> \o ParseColumnOptions(rest)

ParseColumnOptions(toks) ==
    IF toks = <<>> THEN <<>>
    ELSE IF toks[1] = "AUTO_INCREMENT"
    THEN <<ColumnOption("ColumnOptionAutoIncrement")>> \o ParseColumnOptions(Tail(toks))
    ELSE IF toks[1] = "NOT NULL"
    THEN <<ColumnOption("ColumnOptionNotNull")>> \o ParseColumnOptions(Tail(toks))
    ELSE IF toks[1] = "NULL"
    THEN <<ColumnOption("ColumnOptionNull")>> \o ParseColumnOptions(Tail(toks))
    ELSE IF toks[1] = "PRIMARY KEY"
    THEN <<ColumnOption("ColumnOptionPrimaryKey")>> \o ParseColumnOptions(Tail(toks))
    ELSE IF toks[1] = "DEFAULT"
    THEN DefaultOf(ParseDefault(SubSeq(toks, 2, 1 + DefaultSpan(toks))),
                   SubSeq(toks, 2 + DefaultSpan(toks), Len(toks)))
    ELSE <<ParseFail>>

ColumnOf(name, tp, ok, opts) ==
    IF ~ok \/ AnyFail(opts) THEN ParseFail ELSE ColumnDef(name, tp, opts)

\* CHARACTER SET name at index at: the name, "" without the clause, "?" for
\* an unknown name or a type that takes none
ColumnCharset(toks, at) ==
    IF ~(Len(toks) >= at /\ toks[at] = "CHARACTER SET") THEN ""
    ELSE IF /\ Len(toks) >= at + 1
            /\ ToLower(toks[at + 1]) \in Charsets
            /\ toks[2] \in TextTypes
    THEN ToLower(toks[at + 1])
    ELSE "?"

\* COLLATE name at index at, as ColumnCharset
ColumnCollate(toks, at) ==
    IF ~(Len(toks) >= at /\ toks[at] = "COLLATE") THEN ""
    ELSE IF /\ Len(toks) >= at + 1
            /\ ToLower(toks[at + 1]) \in Collations
            /\ toks[2] \in TextTypes
    THEN ToLower(toks[at + 1])
    ELSE "?"

\* the column after its type and charset: [COLLATE name] options
ColumnCollated(toks, tp, ok, co, at) ==
    ColumnOf(NameOf(toks[1]), IF co = "" THEN tp ELSE [tp EXCEPT !.collate = co],
             ok /\ co # "?",
             ParseColumnOptions(SubSeq(toks, IF co = "" THEN at ELSE at + 2, Len(toks))))

\* the column after its type: [CHARACTER SET cs] [COLLATE name] options
ColumnTail(toks, tp, ok, cs, afterLen) ==
    ColumnCollated(toks, IF cs = "" THEN tp ELSE [tp EXCEPT !.charset = cs],
                   ok /\ cs # "?",
                   ColumnCollate(toks, IF cs = "" THEN afterLen ELSE afterLen + 2),
                   IF cs = "" THEN afterLen ELSE afterLen + 2)

ColumnAfterType(toks, tp, ok, afterLen) ==
    ColumnTail(toks, tp, ok, ColumnCharset(toks, afterLen), afterLen)

EnumElems(toks, close) ==
    IF close > 4 THEN SplitTop(SubSeq(toks, 4, close - 1), ",") ELSE <<>>

EnumOk(elems) ==
    /\ elems # <<>>
    /\ \A i \in 1..Len(elems) : Len(elems[i]) = 1 /\ IsString(elems[i][1])

EnumType(t, elems) ==
    [tp |-> TypeCodeOf(t), flen |-> UnspecifiedLength,
     decimal |-> UnspecifiedLength,
     elems |-> [i \in 1..Len(elems) |-> StringOf(elems[i][1])],
     charset |-> "", collate |-> ""]

\* name ENUM ( 'a' , ... ) ..., close the index of the closing bracket
ParseEnumColumn(toks, close) ==
    ColumnAfterType(toks, EnumType(toks[2], EnumElems(toks, close)),
                    EnumOk(EnumElems(toks, close)), close + 1)

MaxFloatPrecisionLength == 24

MaxDoublePrecisionLength == 53

\* FLOAT(p) without a scale is a float or a double of no length
IsFloatPrecision(t, hasLen, len) ==
    /\ t = "FLOAT" /\ hasLen /\ DecimalOf(len) = UnspecifiedLength
    /\ LenOf(len) <= MaxDoublePrecisionLength

MaxDatetimeWidthNoFsp == 19

MaxDurationWidthNoFsp == 10

\* the length the parser gives a type written without one
DefaultLen(t) ==
    CASE t \in {"BOOL", "BOOLEAN", "BIT"} -> 1
      [] t \in {"DATETIME", "TIMESTAMP"} -> MaxDatetimeWidthNoFsp
      [] t = "TIME" -> MaxDurationWidthNoFsp
      [] OTHER -> UnspecifiedLength

\* the length of a date and time type with a fraction of fsp digits
FspLen(t, fsp) == DefaultLen(t) + (IF fsp > 0 THEN 1 + fsp ELSE 0)

FspTypes == {"DATETIME", "TIMESTAMP", "TIME"}

PlainType(t, hasLen, len) ==
    [tp |-> IF IsFloatPrecision(t, hasLen, len) /\ LenOf(len) > MaxFloatPrecisionLength
            THEN "TypeDouble" ELSE TypeCodeOf(t),
     flen |-> IF IsFloatPrecision(t, hasLen, len) THEN UnspecifiedLength
              ELSE IF hasLen /\ t \in FspTypes THEN FspLen(t, LenOf(len))
              ELSE IF hasLen THEN LenOf(len)
              ELSE DefaultLen(t),
     decimal |-> IF t = "JSON" THEN 0
                 ELSE IF hasLen /\ t \notin FspTypes THEN DecimalOf(len)
                 ELSE IF hasLen THEN LenOf(len)
                 ELSE UnspecifiedLength,
     elems |-> <<>>,
     charset |-> IF t \in BinaryTypes THEN "binary" ELSE "",
     collate |-> IF t \in BinaryTypes THEN "binary" ELSE ""]

\* a scale goes with the fractional types only, VARCHAR needs its length,
\* the types without a length take none
LenOk(t, hasLen, len) ==
    /\ hasLen /\ DecimalOf(len) # UnspecifiedLength =>
          t \in {"DECIMAL", "NUMERIC", "FLOAT", "DOUBLE", "REAL"}
    /\ t = "VARCHAR" => hasLen
    /\ hasLen => t \notin {"BOOL", "BOOLEAN", "DATE", "JSON", "TINYBLOB", "TINYTEXT",
                           "MEDIUMBLOB", "MEDIUMTEXT", "LONGBLOB", "LONGTEXT",
                           "GEOMETRY"}

\* name TYPE [(len)] ...
ParsePlainColumn(toks, hasLen) ==
    ColumnAfterType(toks, PlainType(toks[2], hasLen, IF hasLen THEN toks[3] ELSE ""),
                    LenOk(toks[2], hasLen, IF hasLen THEN toks[3] ELSE ""),
                    IF hasLen THEN 4 ELSE 3)

ParseColumnDef(toks) ==
    IF Len(toks) < 2 \/ ~IsIdent(toks[1]) \/ toks[2] \notin TypeKeywords
    THEN ParseFail
    ELSE IF toks[2] \in ElemTypes
    THEN ParseEnumColumn(toks, IF Len(toks) >= 3 /\ toks[3] = "("
                               THEN MatchClose(toks, 3) ELSE 0)
    ELSE ParsePlainColumn(toks, Len(toks) >= 3 /\ IsLenToken(toks[3]))

ParseColumns(items) == [i \in 1..Len(items) |-> ParseColumnDef(items[i])]

ParseColumnList(toks) == ParseColumns(SplitTop(toks, ","))

KeyPartsOf(names, rest) ==
    [parts |-> IF AnyFail(names) THEN <<ParseFail>>
               ELSE [i \in 1..Len(names) |-> IndexPartSpecification(names[i])],
     rest |-> rest]

ParseKeyPartsTo(toks, close) ==
    KeyPartsOf(IF close > 2 THEN ParseNameList(SubSeq(toks, 2, close - 1))
               ELSE <<ParseFail>>,
               IF close = 0 THEN <<>> ELSE SubSeq(toks, close + 1, Len(toks)))

\* "(" names ")" at the head of toks: [parts, rest]; parts = <<ParseFail>> without it
ParseKeyParts(toks) ==
    ParseKeyPartsTo(toks, IF toks # <<>> /\ toks[1] = "(" THEN MatchClose(toks, 1) ELSE 0)

ForeignKeyOf(keys, table, refs) ==
    IF AnyFail(refs.parts) \/ refs.rest # <<>> THEN ParseFail
    ELSE Constraint("ConstraintForeignKey", keys.parts,
                    ReferenceDef(TableName(NameOf(table)), refs.parts))

ConstraintOf(tp, keys) ==
    IF AnyFail(keys.parts) THEN ParseFail
    ELSE IF tp = "PRIMARY KEY"
    THEN IF keys.rest = <<>> THEN Constraint("ConstraintPrimaryKey", keys.parts, Nil)
         ELSE ParseFail
    ELSE IF \/ Len(keys.rest) < 2
            \/ keys.rest[1] # "REFERENCES"
            \/ ~IsIdent(keys.rest[2])
    THEN ParseFail
    ELSE ForeignKeyOf(keys, keys.rest[2],
                      ParseKeyParts(SubSeq(keys.rest, 3, Len(keys.rest))))

\* a table constraint of CREATE TABLE: a primary key or a foreign key
ParseConstraint(toks) == ConstraintOf(toks[1], ParseKeyParts(Tail(toks)))

ParseConstraints(items) == [i \in 1..Len(items) |-> ParseConstraint(items[i])]

IsConstraint(toks) == toks # <<>> /\ toks[1] \in {"PRIMARY KEY", "FOREIGN KEY"}

IsColumn(toks) == ~IsConstraint(toks)

ParseTableOption(name, val) ==
    CASE name = "ENGINE" /\ (IsIdent(val) \/ IsString(val)) ->
            TableOption(TableOptionEngine, IF IsString(val) THEN StringOf(val)
                                           ELSE NameOf(val))
      [] name \in {"DEFAULT CHARACTER SET", "CHARACTER SET"}
         /\ ToLower(val) \in Charsets ->
            TableOption(TableOptionCharacterSet, ToLower(val))
      [] name \in {"DEFAULT COLLATE", "COLLATE"} /\ ToLower(val) \in Collations ->
            TableOption(TableOptionCollate, ToLower(val))
      [] OTHER -> ParseFail

RECURSIVE ParseTableOptions(_)
\* name [=] value ...
ParseTableOptions(toks) ==
    IF toks = <<>> THEN <<>>
    ELSE IF Len(toks) >= 3 /\ toks[2] = "="
    THEN <<ParseTableOption(toks[1], toks[3])>>
         \o ParseTableOptions(SubSeq(toks, 4, Len(toks)))
    ELSE IF Len(toks) >= 2
    THEN <<ParseTableOption(toks[1], toks[2])>>
         \o ParseTableOptions(SubSeq(toks, 3, Len(toks)))
    ELSE <<ParseFail>>

CreateTableOf(name, cols, cons, opts) ==
    IF AnyFail(cols) \/ AnyFail(cons) \/ AnyFail(opts) THEN ParseFail
    ELSE [kind |-> "CreateTableStmt", Table |-> TableName(name),
          Cols |-> cols, Constraints |-> cons, Options |-> opts]

\* items: the columns and constraints between the brackets
ParseTableItems(name, items, optToks) ==
    CreateTableOf(name, ParseColumns(SelectSeq(items, IsColumn)),
                  ParseConstraints(SelectSeq(items, IsConstraint)),
                  ParseTableOptions(optToks))

ParseCreateTableTo(toks, close) ==
    IF Len(toks) < 6 \/ ~IsIdent(toks[2]) \/ toks[3] # "(" \/ close < 6
    THEN ParseFail
    ELSE ParseTableItems(NameOf(toks[2]), SplitTop(SubSeq(toks, 4, close - 1), ","),
                         SubSeq(toks, close + 1, Len(toks)))

ParseCreateTable(toks) ==
    ParseCreateTableTo(toks, IF Len(toks) >= 3 /\ toks[3] = "("
                             THEN MatchClose(toks, 3) ELSE 0)

\* ADD COLUMN takes its columns in brackets or a single one without
InBrackets(toks) == toks[1] = "ADD COLUMN" /\ Len(toks) >= 2 /\ toks[2] = "("

\* the column definitions of ADD, MODIFY and CHANGE COLUMN
SpecColumnToks(toks) ==
    IF toks[1] = "CHANGE COLUMN" THEN SubSeq(toks, 3, Len(toks))
    ELSE IF InBrackets(toks) THEN SubSeq(toks, 3, Len(toks) - 1)
    ELSE SubSeq(toks, 2, Len(toks))

ColumnSpecOf(toks, cols) ==
    IF AnyFail(cols) THEN ParseFail
    ELSE IF toks[1] = "ADD COLUMN"
    THEN IF InBrackets(toks) /\ toks[Len(toks)] # ")" THEN ParseFail
         ELSE AlterTableSpec("AlterTableAddColumns", cols, <<>>, <<>>,
                             IF InBrackets(toks) THEN Nil ELSE ColumnPosition)
    ELSE IF Len(cols) # 1 THEN ParseFail
    ELSE IF toks[1] = "MODIFY COLUMN"
    THEN AlterTableSpec("AlterTableModifyColumn", cols, <<>>, <<>>, ColumnPosition)
    ELSE IF Len(toks) < 2 \/ ~IsIdent(toks[2]) THEN ParseFail
    ELSE AlterTableSpec("AlterTableChangeColumn", cols, <<>>,
                        <<ColumnName(NameOf(toks[2]))>>, ColumnPosition)

OptionSpecOf(opts) ==
    IF AnyFail(opts) THEN ParseFail
    ELSE AlterTableSpec("AlterTableOption", <<>>, opts, <<>>, Nil)

ParseAlterSpec(toks) ==
    IF toks = <<>> THEN ParseFail
    ELSE IF toks[1] \in {"ADD COLUMN", "MODIFY COLUMN", "CHANGE COLUMN"}
    THEN ColumnSpecOf(toks, ParseColumnList(SpecColumnToks(toks)))
    ELSE OptionSpecOf(ParseTableOptions(toks))

ParseAlterSpecs(parts) == [i \in 1..Len(parts) |-> ParseAlterSpec(parts[i])]

AlterTableOf(name, specs) ==
    IF AnyFail(specs) THEN ParseFail
    ELSE [kind |-> "AlterTableStmt", Table |-> TableName(name), Specs |-> specs]

ParseAlterTable(toks) ==
    IF Len(toks) < 3 \/ ~IsIdent(toks[2]) THEN ParseFail
    ELSE AlterTableOf(NameOf(toks[2]),
                      ParseAlterSpecs(SplitTop(SubSeq(toks, 3, Len(toks)), ",")))

\* a table of FROM and JOIN: name, name alias or name AS alias
ParseTableSource(toks) ==
    IF Len(toks) = 1 /\ IsIdent(toks[1])
    THEN TableSource(TableName(NameOf(toks[1])), "")
    ELSE IF Len(toks) = 2 /\ IsIdent(toks[1]) /\ IsIdent(toks[2])
    THEN TableSource(TableName(NameOf(toks[1])), NameOf(toks[2]))
    ELSE IF Len(toks) = 3 /\ IsIdent(toks[1]) /\ toks[2] = "AS" /\ IsIdent(toks[3])
    THEN TableSource(TableName(NameOf(toks[1])), NameOf(toks[3]))
    ELSE ParseFail

\* the tokens that join two table references, and the kind of their join
JoinTokens == {"JOIN", "LEFT JOIN", "RIGHT JOIN", ","}

JoinTypeOf(t) ==
    CASE t = "LEFT JOIN" -> "LeftJoin"
      [] t = "RIGHT JOIN" -> "RightJoin"
      [] OTHER -> "CrossJoin"

RECURSIVE ParseJoin(_)
\* an operand of a join: a table, or a join in brackets
ParseJoinOperand(toks) ==
    IF Len(toks) >= 3 /\ toks[1] = "(" /\ MatchClose(toks, 1) = Len(toks)
    THEN ParseJoin(SubSeq(toks, 2, Len(toks) - 1))
    ELSE ParseTableSource(toks)

RECURSIVE JoinAll(_, _, _)
JoinOn(left, right, tp, cond, rest, tps) ==
    IF right = ParseFail \/ cond = ParseFail THEN ParseFail
    ELSE JoinAll(Join(left, right, tp, IF cond = Nil THEN Nil ELSE OnCondition(cond)),
                 rest, tps)

\* left joined with "operand [ON expr]", onAt the index of ON (0: none)
JoinPart(left, part, tp, onAt, rest, tps) ==
    JoinOn(left,
           ParseJoinOperand(IF onAt = 0 THEN part ELSE SubSeq(part, 1, onAt - 1)),
           tp,
           IF onAt = 0 THEN Nil ELSE ParseExpr(SubSeq(part, onAt + 1, Len(part))),
           rest, tps)

\* left-deep joins of left with the operands of parts, tps their join types
JoinAll(left, parts, tps) ==
    IF parts = <<>> THEN left
    ELSE JoinPart(left, Head(parts), Head(tps), FirstTop(Head(parts), {"ON"}),
                  Tail(parts), Tail(tps))

\* a single table is a join without a right side
JoinFrom(first, rest, tps) ==
    IF first = ParseFail THEN ParseFail
    ELSE IF rest # <<>> THEN JoinAll(first, rest, tps)
    ELSE IF first.kind = "Join" THEN first
    ELSE Join(first, Nil, "", Nil)

\* seps: the indices of the join tokens at the top of toks
ParseJoins(toks, seps) ==
    JoinFrom(ParseJoinOperand(PiecesOf(toks, seps)[1]),
             Tail(PiecesOf(toks, seps)),
             [k \in 1..Cardinality(seps) |-> JoinTypeOf(toks[NthOf(seps, k)])])

ParseJoin(toks) == ParseJoins(toks, TopIndices(toks, JoinTokens))

TableRefsOf(join) == IF join = ParseFail THEN ParseFail ELSE TableRefsClause(join)

ParseTableRefs(toks) == TableRefsOf(ParseJoin(toks))

FieldOf(expr, as) == IF expr = ParseFail THEN ParseFail ELSE SelectField(FALSE, expr, as)

\* expr [AS alias], hasAs: the alias is there
ParseAliased(toks, hasAs) ==
    FieldOf(ParseExpr(IF hasAs THEN SubSeq(toks, 1, Len(toks) - 2) ELSE toks),
            IF hasAs THEN NameOf(toks[Len(toks)]) ELSE "")

ParseSelectField(toks) ==
    IF toks = <<"*">> THEN SelectField(TRUE, Nil, "")
    ELSE ParseAliased(toks, /\ Len(toks) >= 3
                            /\ toks[Len(toks) - 1] = "AS"
                            /\ IsIdent(toks[Len(toks)]))

ParseFieldList(toks) ==
    LET parts == SplitTop(toks, ",")
    IN [i \in 1..Len(parts) |-> ParseSelectField(parts[i])]

ByItemOf(expr, desc) == IF expr = ParseFail THEN ParseFail ELSE OrderItem(expr, desc)

ParseDirected(toks, dir) ==
    ByItemOf(ParseExpr(IF dir THEN SubSeq(toks, 1, Len(toks) - 1) ELSE toks),
             dir /\ toks[Len(toks)] = "DESC")

\* an item of GROUP BY or ORDER BY: expr [ASC | DESC]
ParseByItem(toks) ==
    ParseDirected(toks, Len(toks) >= 2 /\ toks[Len(toks)] \in {"ASC", "DESC"})

ParseByItems(toks) ==
    LET parts == SplitTop(toks, ",")
    IN [i \in 1..Len(parts) |-> ParseByItem(parts[i])]

\* the clauses after the select list, in the order the grammar wants them
SelectClauses == <<"FROM", "WHERE", "GROUP BY", "HAVING", "ORDER BY", "LIMIT">>

ClauseStart(toks, k) == FirstTop(toks, {SelectClauses[k]})

\* where each clause starts (0: the clause is absent)
ClauseStarts(toks) == [k \in 1..Len(SelectClauses) |-> ClauseStart(toks, k)]

\* the index the clause starting at index from ends at
ClauseEnd(toks, starts, from) ==
    LET later == {starts[j] : j \in 1..Len(starts)} \ (0..from)
    IN IF later = {} THEN Len(toks) ELSE FirstOf(later) - 1

\* the tokens of clause k, without its keyword (<<>>: the clause is absent or empty)
ClauseToks(toks, starts, k) ==
    IF starts[k] = 0 THEN <<>>
    ELSE SubSeq(toks, starts[k] + 1, ClauseEnd(toks, starts, starts[k]))

ClausesInOrder(starts) ==
    \A j, k \in 1..Len(starts) :
        j < k /\ starts[j] # 0 /\ starts[k] # 0 => starts[j] < starts[k]

\* WHERE expr at the end of UPDATE and DELETE: Nil without it
ParseWhere(toks) ==
    IF toks = <<>> THEN Nil
    ELSE IF toks[1] = "WHERE" THEN ParseExpr(Tail(toks))
    ELSE ParseFail

ParseLimit(toks) ==
    IF Len(toks) = 1 /\ IsDigits(toks[1]) THEN Limit(LiteralOf(toks[1], ""))
    ELSE ParseFail

\* conds: the expressions of WHERE (2) and HAVING (4); items: those of
\* GROUP BY (3) and ORDER BY (5)
SelectOf(ok, distinct, fields, from, conds, items, limit) ==
    IF \/ ~ok
       \/ AnyFail(fields)
       \/ from = ParseFail \/ conds[2] = ParseFail \/ conds[4] = ParseFail
       \/ AnyFail(items[3]) \/ AnyFail(items[5]) \/ limit = ParseFail
    THEN ParseFail
    ELSE [kind |-> "SelectStmt", Distinct |-> distinct,
          Fields |-> FieldList(fields), From |-> from, Where |-> conds[2],
          GroupBy |-> IF items[3] = <<>> THEN Nil ELSE GroupByClause(items[3]),
          Having |-> IF conds[4] = Nil THEN Nil ELSE HavingClause(conds[4]),
          OrderBy |-> IF items[5] = <<>> THEN Nil ELSE OrderByClause(items[5]),
          Limit |-> limit]

\* body: the tokens after SELECT [DISTINCT]; starts: where its clauses start
ParseClauses(body, distinct, starts) ==
    SelectOf(/\ ClausesInOrder(starts)
             /\ (starts[1] = 0 => \A k \in 2..4 : starts[k] = 0),
             distinct,
             ParseFieldList(SubSeq(body, 1, ClauseEnd(body, starts, 0))),
             IF starts[1] # 0 THEN ParseTableRefs(ClauseToks(body, starts, 1)) ELSE Nil,
             [k \in {2, 4} |->
                 IF starts[k] # 0 THEN ParseExpr(ClauseToks(body, starts, k)) ELSE Nil],
             [k \in {3, 5} |->
                 IF starts[k] # 0 THEN ParseByItems(ClauseToks(body, starts, k))
                 ELSE <<>>],
             IF starts[6] # 0 THEN ParseLimit(ClauseToks(body, starts, 6)) ELSE Nil)

ParseSelectBody(body, distinct) == ParseClauses(body, distinct, ClauseStarts(body))

ParseSelect(toks) ==
    ParseSelectBody(IF Len(toks) >= 2 /\ toks[2] = "DISTINCT"
                    THEN SubSeq(toks, 3, Len(toks)) ELSE Tail(toks),
                    Len(toks) >= 2 /\ toks[2] = "DISTINCT")

\* one row of VALUES, "(" exprs ")": <<ParseFail>> for a row not in brackets
ParseRow(row) ==
    IF Len(row) >= 2 /\ row[1] = "(" /\ MatchClose(row, 1) = Len(row)
    THEN IF Len(row) = 2 THEN <<>> ELSE ParseExprList(SubSeq(row, 2, Len(row) - 1))
    ELSE <<ParseFail>>

\* the rows of VALUES, "(" exprs ")" {"," "(" exprs ")"}
ParseRows(toks) ==
    LET rows == SplitTop(toks, ",")
    IN [i \in 1..Len(rows) |-> ParseRow(rows[i])]

\* the column names of INSERT, in brackets between the table and VALUES
ParseInsertColumns(head) ==
    IF head = <<>> THEN <<>>
    ELSE IF Len(head) >= 3 /\ head[1] = "(" /\ MatchClose(head, 1) = Len(head)
    THEN ParseNameList(SubSeq(head, 2, Len(head) - 1))
    ELSE <<ParseFail>>

\* InsertStmt.Lists is kept as RowLens (the length of each row) and Lists
\* (the expressions of all rows, row after row)
InsertOf(ok, name, cols, rows) ==
    IF ~ok \/ AnyFail(cols) \/ \E i \in 1..Len(rows) : AnyFail(rows[i]) THEN ParseFail
    ELSE [kind |-> "InsertStmt", Table |-> OneTable(name), Columns |-> cols,
          RowLens |-> [i \in 1..Len(rows) |-> Len(rows[i])],
          Lists |-> Flatten(rows)]

ParseInsertAt(toks, valuesAt) ==
    InsertOf(Len(toks) >= 5 /\ IsIdent(toks[2]) /\ valuesAt >= 3, NameOf(toks[2]),
             ParseInsertColumns(SubSeq(toks, 3, valuesAt - 1)),
             ParseRows(SubSeq(toks, valuesAt + 1, Len(toks))))

ParseInsert(toks) == ParseInsertAt(toks, FirstTop(toks, {"VALUES"}))

AssignmentOf(ok, col, expr) ==
    IF ~ok \/ col = ParseFail \/ expr = ParseFail THEN ParseFail
    ELSE Assignment(col, expr)

ParseAssignmentAt(toks, eq) ==
    AssignmentOf(eq # 0, ParseColumnName(SubSeq(toks, 1, eq - 1)),
                 ParseExpr(SubSeq(toks, eq + 1, Len(toks))))

ParseAssignment(toks) == ParseAssignmentAt(toks, FirstTop(toks, {"="}))

ParseAssignments(parts) == [i \in 1..Len(parts) |-> ParseAssignment(parts[i])]

UpdateOf(ok, name, list, where) ==
    IF ~ok \/ AnyFail(list) \/ where = ParseFail THEN ParseFail
    ELSE [kind |-> "UpdateStmt", TableRefs |-> OneTable(name), List |-> list,
          Where |-> where]

ParseUpdateAt(toks, whereAt) ==
    UpdateOf(Len(toks) >= 6 /\ IsIdent(toks[2]) /\ toks[3] = "SET", NameOf(toks[2]),
             ParseAssignments(
                 SplitTop(SubSeq(toks, 4, IF whereAt = 0 THEN Len(toks) ELSE whereAt - 1),
                          ",")),
             IF whereAt = 0 THEN Nil ELSE ParseWhere(SubSeq(toks, whereAt, Len(toks))))

ParseUpdate(toks) == ParseUpdateAt(toks, FirstTop(toks, {"WHERE"}))

DeleteOf(ok, name, where) ==
    IF ~ok \/ where = ParseFail THEN ParseFail
    ELSE [kind |-> "DeleteStmt", TableRefs |-> OneTable(name), Where |-> where]

ParseDelete(toks) ==
    DeleteOf(Len(toks) >= 2 /\ IsIdent(toks[2]), NameOf(toks[2]),
             ParseWhere(SubSeq(toks, 3, Len(toks))))

DropTableOf(ifExists, parts) ==
    IF \A i \in 1..Len(parts) : Len(parts[i]) = 1 /\ IsIdent(parts[i][1])
    THEN [kind |-> "DropTableStmt", IfExists |-> ifExists,
          Tables |-> [i \in 1..Len(parts) |-> TableName(NameOf(parts[i][1]))]]
    ELSE ParseFail

ParseDropTable(toks) ==
    DropTableOf(Len(toks) >= 2 /\ toks[2] = "IF EXISTS",
                SplitTop(SubSeq(toks,
                                IF Len(toks) >= 2 /\ toks[2] = "IF EXISTS" THEN 3 ELSE 2,
                                Len(toks)),
                         ","))

CreateIndexOf(ok, name, table, keys) ==
    IF ~ok \/ AnyFail(keys.parts) \/ keys.rest # <<>> THEN ParseFail
    ELSE [kind |-> "CreateIndexStmt", IndexName |-> name,
          Table |-> TableName(table), IndexPartSpecifications |-> keys.parts,
          IndexOption |-> [kind |-> "IndexOption"]]

ParseCreateIndex(toks) ==
    CreateIndexOf(/\ Len(toks) >= 7
                  /\ IsIdent(toks[2]) /\ toks[3] = "ON" /\ IsIdent(toks[4]),
                  NameOf(toks[2]), NameOf(toks[4]),
                  ParseKeyParts(SubSeq(toks, 5, Len(toks))))

\* the statements of one or two words
ParseSimple(toks) ==
    CASE toks[1] = "LOCK TABLES" /\ Len(toks) = 3 /\ IsIdent(toks[2]) /\ toks[3] = "READ" ->
            [kind |-> "LockTablesStmt", Table |-> TableName(NameOf(toks[2]))]
      [] toks[1] = "UNLOCK TABLES" /\ Len(toks) = 1 -> [kind |-> "UnlockTablesStmt"]
      [] toks[1] = "USE" /\ Len(toks) = 2 /\ IsIdent(toks[2]) ->
            [kind |-> "UseStmt", DBName |-> NameOf(toks[2])]
      [] toks[1] = "BEGIN" /\ Len(toks) = 1 -> [kind |-> "BeginStmt"]
      [] toks[1] = "COMMIT" /\ Len(toks) = 1 -> [kind |-> "CommitStmt"]
      [] toks[1] = "ROLLBACK" /\ Len(toks) = 1 -> [kind |-> "RollbackStmt"]
      [] toks[1] \in {"SHOW TABLES", "SHOW DATABASES"} /\ Len(toks) = 1 ->
            [kind |-> "ShowStmt", Tp |-> toks[1]]
      [] OTHER -> ParseFail

ParseStmt(toks) ==
    CASE toks[1] = "CREATE TABLE" -> ParseCreateTable(toks)
      [] toks[1] = "ALTER TABLE" -> ParseAlterTable(toks)
      [] toks[1] = "SELECT" -> ParseSelect(toks)
      [] toks[1] = "INSERT INTO" -> ParseInsert(toks)
      [] toks[1] = "UPDATE" -> ParseUpdate(toks)
      [] toks[1] = "DELETE FROM" -> ParseDelete(toks)
      [] toks[1] = "DROP TABLE" -> ParseDropTable(toks)
      [] toks[1] = "CREATE INDEX" -> ParseCreateIndex(toks)
      [] OTHER -> ParseSimple(toks)

ParseStmts(parts) == [i \in 1..Len(parts) |-> ParseStmt(parts[i])]

NonEmpty(p) == p # <<>>

StmtsOf(stmts) ==
    IF AnyFail(stmts) THEN [err |-> TRUE, stmts |-> <<>>]
    ELSE [err |-> FALSE, stmts |-> stmts]

\* SQLParser.ParseSQL: [err, stmts]; empty statements between ";" are dropped
ParseSQL(sql) == StmtsOf(ParseStmts(SelectSeq(SplitTop(Lex(sql), ";"), NonEmpty)))

\* ------------------------------------------------------------------------
\* Restore: statements -> text (TiDB Restore under format.DefaultRestoreFlags:
\* keywords in upper case, strings in single quotes, names in backquotes,
\* the charset introducer of a string kept)
\* ------------------------------------------------------------------------
\* RestoreCtx.WriteName: the name in backquotes, its backquotes doubled
WriteName(name) ==
    Backtick \o ReplaceAll(name, Backtick, Backtick \o Backtick) \o Backtick

\* RestoreCtx.WriteString: the text in single quotes, its quotes doubled
WriteString(str) == "'" \o ReplaceAll(str, "'", "''") \o "'"

\* RestoreCtx.WriteKeyWord
WriteKeyWord(word) == ToUpper(word)

IsBinaryCharset(cs) == cs = "binary"

\* types.TypeToStr: the blob and char types are named after their charset
TypeToStr(tp, cs) ==
    CASE tp = "TypeTiny" -> "tinyint"
      [] tp = "TypeShort" -> "smallint"
      [] tp = "TypeLong" -> "int"
      [] tp = "TypeInt24" -> "mediumint"
      [] tp = "TypeLonglong" -> "bigint"
      [] tp = "TypeFloat" -> "float"
      [] tp = "TypeDouble" -> "double"
      [] tp = "TypeNewDecimal" -> "decimal"
      [] tp = "TypeDate" -> "date"
      [] tp = "TypeDatetime" -> "datetime"
      [] tp = "TypeTimestamp" -> "timestamp"
      [] tp = "TypeDuration" -> "time"
      [] tp = "TypeYear" -> "year"
      [] tp = "TypeString" -> IF IsBinaryCharset(cs) THEN "binary" ELSE "char"
      [] tp = "TypeVarchar" -> IF IsBinaryCharset(cs) THEN "varbinary" ELSE "varchar"
      [] tp = "TypeVarString" -> "var_string"
      [] tp = "TypeTinyBlob" -> IF IsBinaryCharset(cs) THEN "tinyblob" ELSE "tinytext"
      [] tp = "TypeBlob" -> IF IsBinaryCharset(cs) THEN "blob" ELSE "text"
      [] tp = "TypeMediumBlob" ->
            IF IsBinaryCharset(cs) THEN "mediumblob" ELSE "mediumtext"
      [] tp = "TypeLongBlob" -> IF IsBinaryCharset(cs) THEN "longblob" ELSE "longtext"
      [] tp = "TypeJSON" -> "json"
      [] tp = "TypeEnum" -> "enum"
      [] tp = "TypeSet" -> "set"
      [] tp = "TypeBit" -> "bit"
      [] tp = "TypeGeometry" -> "geometry"
      [] OTHER -> "unspecified"

\* types.IsTypeChar and types.IsTypeBlob: the types written with their charset
IsTypeChar(tp) == tp \in {"TypeString", "TypeVarchar"}

IsTypeBlob(tp) == tp \in {"TypeTinyBlob", "TypeMediumBlob", "TypeBlob", "TypeLongBlob"}

\* the number written first in the brackets after the type name
PrecisionOf(ft) ==
    IF ft.tp \in {"TypeEnum", "TypeSet"} THEN UnspecifiedLength
    ELSE IF ft.tp \in {"TypeTimestamp", "TypeDatetime", "TypeDuration"} THEN ft.decimal
    ELSE ft.flen

\* the number written second
ScaleOf(ft) ==
    IF ft.tp \in {"TypeUnspecified", "TypeFloat", "TypeDouble", "TypeNewDecimal"}
    THEN ft.decimal ELSE UnspecifiedLength

\* FieldType.Restore
RestoreFieldType(ft) ==
    WriteKeyWord(TypeToStr(ft.tp, ft.charset))
    \o (IF ft.tp \in {"TypeEnum", "TypeSet"}
        THEN "(" \o JoinWith([i \in 1..Len(ft.elems) |-> WriteString(ft.elems[i])], ",")
             \o ")"
        ELSE "")
    \o (IF PrecisionOf(ft) = UnspecifiedLength THEN ""
        ELSE "(" \o Itoa(PrecisionOf(ft))
             \o (IF ScaleOf(ft) = UnspecifiedLength THEN "" ELSE "," \o Itoa(ScaleOf(ft)))
             \o ")")
    \o (IF (IsTypeChar(ft.tp) \/ IsTypeBlob(ft.tp)) /\ ~IsBinaryCharset(ft.charset)
        THEN (IF ft.charset = "" THEN ""
              ELSE " CHARACTER SET " \o WriteKeyWord(ft.charset))
             \o (IF ft.collate = "" THEN "" ELSE " COLLATE " \o ft.collate)
        ELSE "")

RestoreColumnName(c) ==
    (IF c.Table = "" THEN "" ELSE WriteName(c.Table) \o ".") \o WriteName(c.Name)

\* opcode.Op.Restore within BinaryOperationExpr: a keyword operator is
\* written between spaces
RestoreOp(op) == IF op \in {"AND", "OR"} THEN " " \o op \o " " ELSE op

\* test_driver.ValueExpr.Restore
RestoreValue(e) ==
    IF e.datum = "string"
    THEN (IF e.charset = "" THEN "" ELSE "_" \o WriteKeyWord(e.charset))
         \o WriteString(e.val)
    ELSE e.val

RECURSIVE RestoreExpr(_)
RestoreExprs(es, sep) == JoinWith([i \in 1..Len(es) |-> RestoreExpr(es[i])], sep)

\* AggregateFuncExpr.Restore: GROUP_CONCAT writes its last argument after
\* SEPARATOR
RestoreAggregate(e) ==
    WriteKeyWord(e.F) \o "("
    \o (IF e.Distinct THEN "DISTINCT " ELSE "")
    \o (IF ToLower(e.F) = "group_concat"
        THEN RestoreExprs(SubSeq(e.Args, 1, Len(e.Args) - 1), ", ")
             \o " SEPARATOR " \o RestoreExpr(e.Args[Len(e.Args)])
        ELSE RestoreExprs(e.Args, ", "))
    \o ")"

RestoreExpr(e) ==
    CASE e.kind = "ColumnNameExpr" -> RestoreColumnName(e.Name)
      [] e.kind = "ValueExpr" -> RestoreValue(e)
      [] e.kind = "VariableExpr" ->
            (IF e.IsSystem THEN "@@" ELSE "@") \o WriteName(e.Name)
      [] e.kind = "UnaryOperationExpr" -> e.Op \o RestoreExpr(e.V)
      [] e.kind = "BinaryOperationExpr" ->
            RestoreExpr(e.L) \o RestoreOp(e.Op) \o RestoreExpr(e.R)
      [] e.kind = "ParenthesesExpr" -> "(" \o RestoreExpr(e.Expr) \o ")"
      [] e.kind = "CaseExpr" ->
            "CASE"
            \o JoinWith([i \in 1..Len(e.WhenClauses) |->
                            " WHEN " \o RestoreExpr(e.WhenClauses[i].Expr)
                            \o " THEN " \o RestoreExpr(e.WhenClauses[i].Result)], "")
            \o (IF e.ElseClause = Nil THEN "" ELSE " ELSE " \o RestoreExpr(e.ElseClause))
            \o " END"
      [] e.kind = "FuncCallExpr" ->
            WriteKeyWord(e.FnName.O) \o "(" \o RestoreExprs(e.Args, ", ") \o ")"
      [] e.kind = "WindowFuncExpr" ->
            WriteKeyWord(e.Name) \o "("
            \o (IF e.Distinct THEN "DISTINCT " ELSE "")
            \o RestoreExprs(e.Args, ", ")
            \o ") OVER ("
            \o (IF e.Spec.PartitionBy = Nil THEN ""
                ELSE "PARTITION BY "
                     \o JoinWith([i \in 1..Len(e.Spec.PartitionBy.Items) |->
                                     RestoreExpr(e.Spec.PartitionBy.Items[i].Expr)], ", "))
            \o ")"
      [] OTHER -> RestoreAggregate(e)

RestoreColumnOption(o) ==
    CASE o.Tp = "ColumnOptionAutoIncrement" -> "AUTO_INCREMENT"
      [] o.Tp = "ColumnOptionNotNull" -> "NOT NULL"
      [] o.Tp = "ColumnOptionNull" -> "NULL"
      [] o.Tp = "ColumnOptionPrimaryKey" -> "PRIMARY KEY"
      [] OTHER -> "DEFAULT " \o RestoreExpr(o.Expr)

\* ColumnDef.Restore: the type is written when the column has one
RestoreColumnDef(c) ==
    WriteName(c.Name.Name)
    \o (IF c.Tp = Nil THEN "" ELSE " " \o RestoreFieldType(c.Tp))
    \o JoinWith([i \in 1..Len(c.Options) |-> " " \o RestoreColumnOption(c.Options[i])],
                "")

RestoreColumnList(cols, sep) ==
    JoinWith([i \in 1..Len(cols) |-> RestoreColumnDef(cols[i])], sep)

RestoreKeyParts(parts) ==
    "(" \o JoinWith([i \in 1..Len(parts) |-> RestoreColumnName(parts[i].Column)], ", ")
    \o ")"

RestoreConstraint(c) ==
    IF c.Tp = "ConstraintPrimaryKey" THEN "PRIMARY KEY" \o RestoreKeyParts(c.Keys)
    ELSE "CONSTRAINT FOREIGN KEY " \o RestoreKeyParts(c.Keys)
         \o " REFERENCES " \o WriteName(c.Refer.Table.Name)
         \o RestoreKeyParts(c.Refer.IndexPartSpecifications)

RestoreTableOption(o) ==
    CASE o.Tp = TableOptionEngine -> "ENGINE = " \o o.StrValue
      [] o.Tp = TableOptionCharacterSet ->
            "DEFAULT CHARACTER SET = " \o WriteKeyWord(o.StrValue)
      [] OTHER -> "DEFAULT COLLATE = " \o WriteKeyWord(o.StrValue)

RestoreTableOptions(opts) ==
    JoinWith([i \in 1..Len(opts) |-> RestoreTableOption(opts[i])], " ")

RestoreAlterSpec(sp) ==
    CASE sp.Tp = "AlterTableAddColumns" ->
            IF sp.Position # Nil /\ Len(sp.NewColumns) = 1
            THEN "ADD COLUMN " \o RestoreColumnDef(sp.NewColumns[1])
            ELSE "ADD COLUMN (" \o RestoreColumnList(sp.NewColumns, ", ") \o ")"
      [] sp.Tp = "AlterTableModifyColumn" ->
            "MODIFY COLUMN " \o RestoreColumnDef(sp.NewColumns[1])
      [] sp.Tp = "AlterTableChangeColumn" ->
            "CHANGE COLUMN " \o RestoreColumnName(sp.OldColumnName[1]) \o " "
            \o RestoreColumnDef(sp.NewColumns[1])
      [] OTHER -> RestoreTableOptions(sp.Options)

\* the keyword a join of type tp is written with
JoinKeyWord(tp) ==
    CASE tp = "LeftJoin" -> " LEFT JOIN "
      [] tp = "RightJoin" -> " RIGHT JOIN "
      [] OTHER -> " JOIN "

RECURSIVE RestoreJoin(_, _)
\* Join.Restore; level > 0: the join is an operand of another join and is
\* written in brackets
RestoreJoin(j, level) ==
    IF j.kind = "TableSource"
    THEN WriteName(j.Source.Name)
         \o (IF j.AsName = "" THEN "" ELSE " AS " \o WriteName(j.AsName))
    ELSE (IF level > 0 THEN "(" ELSE "")
         \o RestoreJoin(j.Left, level + 1)
         \o (IF j.Right = Nil THEN ""
             ELSE JoinKeyWord(j.Tp) \o RestoreJoin(j.Right, level + 1)
                  \o (IF j.On = Nil THEN "" ELSE " ON " \o RestoreExpr(j.On.Expr)))
         \o (IF level > 0 THEN ")" ELSE "")

RestoreTableRefs(refs) == RestoreJoin(refs.TableRefs, 0)

RestoreSelectField(f) ==
    IF f.WildCard THEN "*"
    ELSE RestoreExpr(f.Expr)
         \o (IF f.AsName = "" THEN "" ELSE " AS " \o WriteName(f.AsName))

RestoreByItems(items) ==
    JoinWith([i \in 1..Len(items) |->
                 RestoreExpr(items[i].Expr) \o (IF items[i].Desc THEN " DESC" ELSE "")],
             ",")

RestoreWhere(where) == IF where = Nil THEN "" ELSE " WHERE " \o RestoreExpr(where)

RECURSIVE RestoreRows(_, _)
\* the rows of VALUES: each row takes its length off the front of lists
RestoreRows(lists, lens) ==
    IF lens = <<>> THEN <<>>
    ELSE <<"(" \o RestoreExprs(SubSeq(lists, 1, Head(lens)), ",") \o ")">>
         \o RestoreRows(SubSeq(lists, Head(lens) + 1, Len(lists)), Tail(lens))

\* StmtNode.Restore
Restore(stmt) ==
    CASE stmt.kind = "CreateTableStmt" ->
            "CREATE TABLE " \o WriteName(stmt.Table.Name) \o " ("
            \o JoinWith([i \in 1..Len(stmt.Cols) |-> RestoreColumnDef(stmt.Cols[i])]
                        \o [i \in 1..Len(stmt.Constraints) |->
                               RestoreConstraint(stmt.Constraints[i])], ",")
            \o ")"
            \o JoinWith([i \in 1..Len(stmt.Options) |->
                            " " \o RestoreTableOption(stmt.Options[i])], "")
      [] stmt.kind = "AlterTableStmt" ->
            "ALTER TABLE " \o WriteName(stmt.Table.Name)
            \o (IF stmt.Specs = <<>> THEN "" ELSE " ")
            \o JoinWith([i \in 1..Len(stmt.Specs) |-> RestoreAlterSpec(stmt.Specs[i])],
                        ", ")
      [] stmt.kind = "SelectStmt" ->
            "SELECT "
            \o (IF stmt.Distinct THEN "DISTINCT " ELSE "")
            \o JoinWith([i \in 1..Len(stmt.Fields.Fields) |->
                            RestoreSelectField(stmt.Fields.Fields[i])], ",")
            \o (IF stmt.From = Nil THEN "" ELSE " FROM " \o RestoreTableRefs(stmt.From))
            \o RestoreWhere(stmt.Where)
            \o (IF stmt.GroupBy = Nil THEN ""
                ELSE " GROUP BY " \o RestoreByItems(stmt.GroupBy.Items))
            \o (IF stmt.Having = Nil THEN ""
                ELSE " HAVING " \o RestoreExpr(stmt.Having.Expr))
            \o (IF stmt.OrderBy = Nil THEN ""
                ELSE " ORDER BY " \o RestoreByItems(stmt.OrderBy.Items))
            \o (IF stmt.Limit = Nil THEN ""
                ELSE " LIMIT " \o RestoreExpr(stmt.Limit.Count))
      [] stmt.kind = "InsertStmt" ->
            "INSERT INTO " \o RestoreTableRefs(stmt.Table)
            \o (IF stmt.Columns = <<>> THEN ""
                ELSE " ("
                     \o JoinWith([i \in 1..Len(stmt.Columns) |->
                                     RestoreColumnName(stmt.Columns[i])], ",")
                     \o ")")
            \o " VALUES " \o JoinWith(RestoreRows(stmt.Lists, stmt.RowLens), ",")
      [] stmt.kind = "UpdateStmt" ->
            "UPDATE " \o RestoreTableRefs(stmt.TableRefs) \o " SET "
            \o JoinWith([i \in 1..Len(stmt.List) |->
                            RestoreColumnName(stmt.List[i].Column) \o "="
                            \o RestoreExpr(stmt.List[i].Expr)], ", ")
            \o RestoreWhere(stmt.Where)
      [] stmt.kind = "DeleteStmt" ->
            "DELETE FROM " \o RestoreTableRefs(stmt.TableRefs)
            \o RestoreWhere(stmt.Where)
      [] stmt.kind = "DropTableStmt" ->
            "DROP TABLE " \o (IF stmt.IfExists THEN "IF EXISTS " ELSE "")
            \o JoinWith([i \in 1..Len(stmt.Tables) |-> WriteName(stmt.Tables[i].Name)],
                        ", ")
      [] stmt.kind = "CreateIndexStmt" ->
            "CREATE INDEX " \o WriteName(stmt.IndexName) \o " ON "
            \o WriteName(stmt.Table.Name) \o " "
            \o RestoreKeyParts(stmt.IndexPartSpecifications)
      [] stmt.kind = "LockTablesStmt" ->
            "LOCK TABLES " \o WriteName(stmt.Table.Name) \o " READ"
      [] stmt.kind = "UnlockTablesStmt" -> "UNLOCK TABLES"
      [] stmt.kind = "UseStmt" -> "USE " \o WriteName(stmt.DBName)
      [] stmt.kind = "BeginStmt" -> "START TRANSACTION"
      [] stmt.kind = "CommitStmt" -> "COMMIT"
      [] stmt.kind = "RollbackStmt" -> "ROLLBACK"
      [] OTHER -> stmt.Tp

IsStmt(st) == st # Nil

NotEmpty(str) == str # ""

\* the texts generateSQL joins: those of the statements that are not nil,
\* the empty ones left out
SqlParts(live) == SelectSeq([i \in 1..Len(live) |-> Restore(live[i])], NotEmpty)

\* SQLAnalyzer.generateSQL; failAt = k > 0 means the restorer reports an
\* error on statement k (0: it never does)
generateSQL(stmts, failAt) ==
    IF Len(stmts) = 0 THEN [err |-> FALSE, sql |-> ""]
    ELSE IF failAt \in 1..Len(stmts) /\ stmts[failAt] # Nil
    THEN [err |-> TRUE, sql |-> ""]
    ELSE [err |-> FALSE, sql |-> JoinWith(SqlParts(SelectSeq(stmts, IsStmt)), ";\n")]

\* ------------------------------------------------------------------------
\* Node addressing and the walker's child order (TiDB Accept methods)
\* ------------------------------------------------------------------------
Step(f, i) == [f |-> f, i |-> i]

RECURSIVE GetNode(_, _)
GetNode(n, path) ==
    IF path = <<>> THEN n
    ELSE LET s == Head(path) IN
         GetNode(IF s.i = 0 THEN n[s.f] ELSE n[s.f][s.i], Tail(path))

RECURSIVE SetNode(_, _, _)
SetNode(n, path, v) ==
    IF path = <<>> THEN v
    ELSE LET s == Head(path) IN
         IF s.i = 0
         THEN [n EXCEPT ![s.f] = SetNode(n[s.f], Tail(path), v)]
         ELSE [n EXCEPT ![s.f] = [@ EXCEPT ![s.i] = SetNode(n[s.f][s.i], Tail(path), v)]]

ListSteps(f, list) == [i \in 1..Len(list) |-> Step(f, i)]

\* a child that may be absent
Child(n, f) == IF n[f] = Nil THEN <<>> ELSE <<Step(f, 0)>>

\* the children Accept descends into, in order
Children(n) ==
    CASE n.kind = "CreateTableStmt" ->
            <<Step("Table", 0)>> \o ListSteps("Cols", n.Cols)
            \o ListSteps("Constraints", n.Constraints)
      [] n.kind = "ColumnDef" -> <<Step("Name", 0)>> \o ListSteps("Options", n.Options)
      [] n.kind = "ColumnOption" -> Child(n, "Expr")
      [] n.kind = "Constraint" -> ListSteps("Keys", n.Keys) \o Child(n, "Refer")
      [] n.kind = "ReferenceDef" ->
            <<Step("Table", 0)>>
            \o ListSteps("IndexPartSpecifications", n.IndexPartSpecifications)
            \o <<Step("OnDelete", 0), Step("OnUpdate", 0)>>
      [] n.kind = "IndexPartSpecification" -> <<Step("Column", 0)>>
      [] n.kind = "AlterTableStmt" -> <<Step("Table", 0)>> \o ListSteps("Specs", n.Specs)
      [] n.kind = "AlterTableSpec" ->
            ListSteps("NewColumns", n.NewColumns)
            \o ListSteps("OldColumnName", n.OldColumnName)
            \o Child(n, "Position")
      [] n.kind = "SelectStmt" ->
            <<Step("Fields", 0)>> \o Child(n, "From") \o Child(n, "Where")
            \o Child(n, "GroupBy") \o Child(n, "Having") \o Child(n, "OrderBy")
            \o Child(n, "Limit")
      [] n.kind = "FieldList" -> ListSteps("Fields", n.Fields)
      [] n.kind = "SelectField" -> Child(n, "Expr")
      [] n.kind = "TableRefsClause" -> <<Step("TableRefs", 0)>>
      [] n.kind = "Join" -> <<Step("Left", 0)>> \o Child(n, "Right") \o Child(n, "On")
      [] n.kind = "TableSource" -> <<Step("Source", 0)>>
      [] n.kind = "OnCondition" -> <<Step("Expr", 0)>>
      [] n.kind = "GroupByClause" -> ListSteps("Items", n.Items)
      [] n.kind = "HavingClause" -> <<Step("Expr", 0)>>
      [] n.kind = "OrderByClause" -> ListSteps("Items", n.Items)
      [] n.kind = "Limit" -> <<Step("Count", 0)>>
      [] n.kind = "InsertStmt" ->
            <<Step("Table", 0)>> \o ListSteps("Columns", n.Columns)
            \o ListSteps("Lists", n.Lists)
      [] n.kind = "UpdateStmt" ->
            <<Step("TableRefs", 0)>> \o ListSteps("List", n.List) \o Child(n, "Where")
      [] n.kind = "Assignment" -> <<Step("Column", 0), Step("Expr", 0)>>
      [] n.kind = "DeleteStmt" -> <<Step("TableRefs", 0)>> \o Child(n, "Where")
      [] n.kind = "DropTableStmt" -> ListSteps("Tables", n.Tables)
      [] n.kind = "CreateIndexStmt" ->
            <<Step("Table", 0)>>
            \o ListSteps("IndexPartSpecifications", n.IndexPartSpecifications)
            \o <<Step("IndexOption", 0)>>
      [] n.kind = "BinaryOperationExpr" -> <<Step("L", 0), Step("R", 0)>>
      [] n.kind = "UnaryOperationExpr" -> <<Step("V", 0)>>
      [] n.kind = "ParenthesesExpr" -> <<Step("Expr", 0)>>
      [] n.kind = "CaseExpr" -> ListSteps("WhenClauses", n.WhenClauses) \o Child(n, "ElseClause")
      [] n.kind = "WhenClause" -> <<Step("Expr", 0), Step("Result", 0)>>
      [] n.kind = "FuncCallExpr" -> ListSteps("Args", n.Args)
      [] n.kind = "AggregateFuncExpr" -> ListSteps("Args", n.Args)
      [] n.kind = "WindowFuncExpr" -> ListSteps("Args", n.Args) \o <<Step("Spec", 0)>>
      [] n.kind = "WindowSpec" -> Child(n, "PartitionBy")
      [] n.kind = "PartitionByClause" -> ListSteps("Items", n.Items)
      [] n.kind = "ByItem" -> <<Step("Expr", 0)>>
      [] n.kind = "ColumnNameExpr" -> <<Step("Name", 0)>>
      [] n.kind = "LockTablesStmt" -> <<Step("Table", 0)>>
      [] OTHER -> <<>>

IsPrefix(p, q) == Len(p) <= Len(q) /\ SubSeq(q, 1, Len(p)) = p

RECURSIVE PreOrder(_, _)
\* all node paths of the subtree at path, depth-first pre-order
PreOrder(root, path) ==
    LET ch == Children(GetNode(root, path)) IN
    <<path>> \o Flatten([i \in 1..Len(ch) |-> PreOrder(root, Append(path, ch[i]))])

\* ------------------------------------------------------------------------
\* Rule catalog (config.Rule) and RuleChecker.LoadRulesFromConfig
\* ------------------------------------------------------------------------
Rule(category, pattern, action, target) ==
    [Category |-> category, Pattern |-> pattern, Action |-> action, Target |-> target]

DefaultCatalog ==
    << Rule("datatype", "TINYINT", "replace_type", "SMALLINT"),
       Rule("datatype", "MEDIUMINT", "replace_type", "INTEGER"),
       Rule("function", "IFNULL", "replace_function", "COALESCE"),
       Rule("function", "group_concat", "replace_function", "STRING_AGG"),
       Rule("syntax", "AUTO_INCREMENT", "replace_constraint", "SERIAL"),
       Rule("syntax", "ENGINE", "replace_clause", ""),
       Rule("syntax", Backtick, "replace_quotes", "\""),
       Rule("charset", "utf8mb4", "replace_charset", "UTF8"),
       Rule("charset", "UTF8MB4_BIN", "replace_collation", "C") >>

\* the rule index of a checker: upper(pattern) -> rule, last writer wins
LoadRulesFromConfig(category, cfg) ==
    LET mine == SelectSeq(cfg, LAMBDA r : EqualFold(r.Category, category))
        keys == {ToUpper(mine[i].Pattern) : i \in 1..Len(mine)}
        last(k) == CHOOSE i \in 1..Len(mine) :
                      /\ ToUpper(mine[i].Pattern) = k
                      /\ \A j \in (i + 1)..Len(mine) : ToUpper(mine[j].Pattern) # k
    IN [k \in keys |-> mine[last(k)]]

HasRule(rules, key) == key \in DOMAIN rules

\* ------------------------------------------------------------------------
\* Transformation library (RuleChecker.ApplyTransformation and the replace*
\* functions).  Each returns [node, same]: the node handed back and whether
\* it is the very node passed in (Go pointer identity).
\* ------------------------------------------------------------------------
replaceFunction(node, rule) ==
    CASE node.kind = "FuncCallExpr" ->
            [node |-> [kind |-> "FuncCallExpr", FnName |-> NewCIStr(rule.Target),
                       Args |-> node.Args],
             same |-> FALSE]
      [] node.kind = "AggregateFuncExpr" ->
            [node |-> [kind |-> "AggregateFuncExpr", F |-> rule.Target,
                       Args |-> node.Args, Distinct |-> node.Distinct,
                       Order |-> node.Order],
             same |-> FALSE]
      [] node.kind = "WindowFuncExpr" ->
            [node |-> [kind |-> "WindowFuncExpr", Name |-> rule.Target,
                       Args |-> node.Args, Distinct |-> FALSE,
                       Spec |-> WindowSpec(Nil)],
             same |-> FALSE]
      [] OTHER -> [node |-> node, same |-> TRUE]

ReplaceTypeTargets ==
    {"TINYINT", "SMALLINT", "INT", "BIGINT", "FLOAT", "DOUBLE", "DECIMAL",
     "DATE", "DATETIME", "TIMESTAMP"}

TargetTypeCode(t) ==
    CASE t = "TINYINT" -> "TypeTiny"
      [] t = "SMALLINT" -> "TypeShort"
      [] t = "INT" -> "TypeLong"
      [] t = "BIGINT" -> "TypeLonglong"
      [] t = "FLOAT" -> "TypeFloat"
      [] t = "DOUBLE" -> "TypeDouble"
      [] t = "DECIMAL" -> "TypeNewDecimal"
      [] t = "DATE" -> "TypeDate"
      [] t = "DATETIME" -> "TypeDatetime"
      [] OTHER -> "TypeTimestamp"

\* a replaceType that builds a field type for every target
replaceTypeAnyTarget(node, rule) ==
    IF node.kind = "ColumnDef"
    THEN [node |-> [node EXCEPT !.Tp = NewFieldType(TargetTypeCode(rule.Target))],
          same |-> TRUE]
    ELSE [node |-> node, same |-> TRUE]

replaceType(node, rule) ==
    IF node.kind = "ColumnDef" /\ rule.Target \in ReplaceTypeTargets
    THEN [node |-> [node EXCEPT !.Tp = NewFieldType(TargetTypeCode(rule.Target))],
          same |-> TRUE]
    ELSE [node |-> node, same |-> TRUE]

IsAutoInc(o) == o.Tp = "ColumnOptionAutoIncrement"

FirstAutoInc(opts) ==
    IF \E i \in 1..Len(opts) : IsAutoInc(opts[i])
    THEN CHOOSE i \in 1..Len(opts) :
            IsAutoInc(opts[i]) /\ \A j \in 1..(i - 1) : ~IsAutoInc(opts[j])
    ELSE 0

RemoveAt(s, i) == SubSeq(s, 1, i - 1) \o SubSeq(s, i + 1, Len(s))

\* a replaceConstraint that returns a copy of the column definition
replaceConstraintCopy(node, rule) ==
    IF node.kind = "ColumnDef"
    THEN IF rule.Target = "SERIAL"
         THEN [node |->
                  [node EXCEPT
                      !.Options = IF FirstAutoInc(node.Options) = 0 THEN node.Options
                                  ELSE RemoveAt(node.Options, FirstAutoInc(node.Options)),
                      !.Tp = IF node.Tp # Nil THEN NewFieldType("TypeLong") ELSE Nil],
               same |-> FALSE]
         ELSE [node |-> node, same |-> FALSE]
    ELSE [node |-> node, same |-> TRUE]

\* SERIAL: the first AUTO_INCREMENT option is removed, and the type becomes
\* types.NewFieldType(mysql.TypeLong) when the column has a type
replaceConstraint(node, rule) ==
    IF node.kind = "ColumnDef"
    THEN IF rule.Target = "SERIAL"
         THEN [node |->
                  [node EXCEPT
                      !.Options = IF FirstAutoInc(node.Options) = 0 THEN node.Options
                                  ELSE RemoveAt(node.Options, FirstAutoInc(node.Options)),
                      !.Tp = IF node.Tp # Nil THEN NewFieldType("TypeLong") ELSE Nil],
               same |-> TRUE]
         ELSE [node |-> node, same |-> TRUE]
    ELSE [node |-> node, same |-> TRUE]

\* strings.Contains(name, Backtick)
ContainsBacktick(name) == Contains(name, Backtick)

\* strings.ReplaceAll(name, Backtick, "\"")
ReplaceBackticks(name) == ReplaceAll(name, Backtick, "\"")

replaceQuotes(node, rule) ==
    IF node.kind \in {"TableName", "ColumnName"}
    THEN [node |-> IF ContainsBacktick(node.Name)
                   THEN [node EXCEPT !.Name = ReplaceBackticks(node.Name)]
                   ELSE node,
          same |-> TRUE]
    ELSE [node |-> node, same |-> TRUE]

replaceClause(node, rule) == [node |-> node, same |-> TRUE]

replaceCharset(node, rule) ==
    IF node.kind = "TableOption"
    THEN [node |-> IF node.Tp = TableOptionCharacterSet /\ node.StrValue # ""
                   THEN [node EXCEPT !.StrValue = rule.Target]
                   ELSE node,
          same |-> TRUE]
    ELSE [node |-> node, same |-> TRUE]

replaceCollation(node, rule) ==
    IF node.kind = "TableOption"
    THEN [node |-> IF node.Tp = TableOptionCollate /\ node.StrValue # ""
                   THEN [node EXCEPT !.StrValue = rule.Target]
                   ELSE node,
          same |-> TRUE]
    ELSE [node |-> node, same |-> TRUE]

ApplyTransformation(node, rule) ==
    CASE rule.Action = "replace_function" -> replaceFunction(node, rule)
      [] rule.Action = "replace_type" -> replaceType(node, rule)
      [] rule.Action = "replace_constraint" -> replaceConstraint(node, rule)
      [] rule.Action = "replace_quotes" -> replaceQuotes(node, rule)
      [] rule.Action = "replace_clause" -> replaceClause(node, rule)
      [] rule.Action = "replace_charset" -> replaceCharset(node, rule)
      [] rule.Action = "replace_collation" -> replaceCollation(node, rule)
      [] OTHER -> [node |-> node, same |-> TRUE]

\* ------------------------------------------------------------------------
\* Issues.  An emitted issue is [Checker, Pattern, Target, Action]: the
\* variable parts of model.Issue (Message and AutoFix are formatted from
\* them).  sub is the path, below the inspected node, of the node the issue
\* reports on.
\* ------------------------------------------------------------------------
Issue(checker, pattern, rule) ==
    [Checker |-> checker, Pattern |-> pattern, Target |-> rule.Target,
     Action |-> rule.Action]

Emit(issue, sub) == [issue |-> issue, sub |-> sub]

\* result of one Inspect call
Res(node, skip, emits) ==
    [node |-> node, skip |-> skip, emits |-> emits, panic |-> FALSE]

\* The statement-level checks loop over nodes below the inspected node and
\* mutate them in place.  acc = [node, emits, has]: the inspected node so far,
\* the issues so far, hasTransform so far.  Folded is acc after the check of
\* the node at path p returned r: r's issues are recorded under p.
NoAcc(node) == [node |-> node, emits |-> <<>>, has |-> FALSE]

Folded(acc, p, r) ==
    [node |-> SetNode(acc.node, p, r.node),
     emits |-> acc.emits
               \o [i \in 1..Len(r.emits) |-> Emit(r.emits[i].issue, p \o r.emits[i].sub)],
     has |-> acc.has \/ r.skip]

AccRes(acc) == Res(acc.node, acc.has, acc.emits)

\* ------------------------------------------------------------------------
\* DataTypeChecker
\* ------------------------------------------------------------------------
\* tp = Nil: the column has no type
extractTypeNameFromFieldType(tp) ==
    IF tp = Nil THEN ""
    ELSE CASE tp.tp = "TypeTiny" -> "TINYINT"
           [] tp.tp = "TypeShort" -> "SMALLINT"
           [] tp.tp = "TypeLong" -> "INT"
           [] tp.tp = "TypeInt24" -> "MEDIUMINT"
           [] tp.tp = "TypeLonglong" -> "BIGINT"
           [] tp.tp = "TypeFloat" -> "FLOAT"
           [] tp.tp = "TypeDouble" -> "DOUBLE"
           [] tp.tp = "TypeNewDecimal" -> "DECIMAL"
           [] tp.tp = "TypeDate" -> "DATE"
           [] tp.tp = "TypeDatetime" -> "DATETIME"
           [] tp.tp = "TypeTimestamp" -> "TIMESTAMP"
           [] tp.tp = "TypeDuration" -> "TIME"
           [] tp.tp = "TypeYear" -> "YEAR"
           [] tp.tp = "TypeVarchar" -> "VARCHAR"
           [] tp.tp = "TypeString" -> "CHAR"
           [] tp.tp = "TypeVarString" -> "VARCHAR"
           [] tp.tp = "TypeBlob" -> "BLOB"
           [] tp.tp = "TypeTinyBlob" -> "TINYBLOB"
           [] tp.tp = "TypeMediumBlob" -> "MEDIUMBLOB"
           [] tp.tp = "TypeLongBlob" -> "LONGBLOB"
           [] tp.tp = "TypeJSON" -> "JSON"
           [] tp.tp = "TypeEnum" -> "ENUM"
           [] tp.tp = "TypeSet" -> "SET"
           [] tp.tp = "TypeBit" -> "BIT"
           [] tp.tp = "TypeGeometry" -> "GEOMETRY"
           [] OTHER -> ""

checkColumnType(node, rules) ==
    IF node = Nil THEN Res(node, FALSE, <<>>)
    ELSE IF node.Tp = Nil THEN Res(node, FALSE, <<>>)
    ELSE IF extractTypeNameFromFieldType(node.Tp) = "" THEN Res(node, FALSE, <<>>)
    ELSE IF ~HasRule(rules, extractTypeNameFromFieldType(node.Tp))
    THEN Res(node, FALSE, <<>>)
    ELSE Res(ApplyTransformation(node, rules[extractTypeNameFromFieldType(node.Tp)]).node,
             TRUE,
             <<Emit(Issue("DataTypeChecker", extractTypeNameFromFieldType(node.Tp),
                          rules[extractTypeNameFromFieldType(node.Tp)]), <<>>)>>)

\* the column definitions checkAlterTable looks at, in its loop order
AlterTypeTargets(node) ==
    Flatten([k \in 1..Len(node.Specs) |->
        LET sp == node.Specs[k] IN
        CASE sp.Tp = "AlterTableAddColumns" ->
                [i \in 1..Len(sp.NewColumns) |-> <<Step("Specs", k), Step("NewColumns", i)>>]
          [] sp.Tp \in {"AlterTableModifyColumn", "AlterTableChangeColumn"} ->
                IF Len(sp.NewColumns) > 0
                THEN << <<Step("Specs", k), Step("NewColumns", 1)>> >>
                ELSE <<>>
          [] OTHER -> <<>>])

RECURSIVE checkAlterTableLoop(_, _, _)
checkAlterTableLoop(acc, paths, rules) ==
    IF paths = <<>> THEN acc
    ELSE checkAlterTableLoop(
             Folded(acc, Head(paths),
                    checkColumnType(GetNode(acc.node, Head(paths)), rules)),
             Tail(paths), rules)

checkAlterTable(node, rules) ==
    AccRes(checkAlterTableLoop(NoAcc(node), AlterTypeTargets(node), rules))

DataTypeInspect(n, rules) ==
    CASE n.kind = "ColumnDef" -> checkColumnType(n, rules)
      [] n.kind = "AlterTableStmt" -> checkAlterTable(n, rules)
      [] OTHER -> Res(n, FALSE, <<>>)

\* ------------------------------------------------------------------------
\* FunctionChecker
\* ------------------------------------------------------------------------
handleFunctionNode(node, funcName, rules) ==
    IF HasRule(rules, funcName)
    THEN LET rule == rules[funcName] IN
         Res(ApplyTransformation(node, rule).node, FALSE,
             <<Emit(Issue("FunctionChecker", funcName, rule), <<>>)>>)
    ELSE Res(node, FALSE, <<>>)

FunctionInspect(n, rules) ==
    IF n = Nil THEN Res(n, TRUE, <<>>) ELSE
    CASE n.kind = "FuncCallExpr" -> handleFunctionNode(n, ToUpper(n.FnName.L), rules)
      [] n.kind = "AggregateFuncExpr" -> handleFunctionNode(n, ToUpper(n.F), rules)
      [] n.kind = "WindowFuncExpr" -> handleFunctionNode(n, ToUpper(n.Name), rules)
      [] OTHER -> Res(n, FALSE, <<>>)

\* ------------------------------------------------------------------------
\* CharsetChecker
\* ------------------------------------------------------------------------
checkCharsetRule(node, value, optType, rules) ==
    IF value = "" \/ ~HasRule(rules, ToUpper(value)) THEN Res(node, FALSE, <<>>)
    ELSE LET rule == rules[ToUpper(value)] IN
         Res(ApplyTransformation(node, rule).node, TRUE,
             <<Emit(Issue("CharsetChecker", value, rule), <<>>)>>)

checkColumnCharset(node, rules) ==
    IF node.Tp = Nil THEN Res(node, FALSE, <<>>) ELSE
    LET charset == node.Tp.charset
        collate == node.Tp.collate
        r1 == IF charset # ""
              THEN checkCharsetRule(node, charset, TableOptionCharacterSet, rules)
              ELSE Res(node, FALSE, <<>>)
        r2 == IF collate # ""
              THEN checkCharsetRule(r1.node, collate, TableOptionCollate, rules)
              ELSE Res(r1.node, FALSE, <<>>)
    IN Res(r2.node, r1.skip \/ r2.skip, r1.emits \o r2.emits)

isCharsetOption(opt) == opt.Tp = TableOptionCharacterSet \/ opt.Tp = TableOptionCollate

processCharsetOption(opt, rules) ==
    IF ~isCharsetOption(opt) THEN Res(opt, FALSE, <<>>)
    ELSE checkCharsetRule(opt, opt.StrValue, opt.Tp, rules)

\* a column definition or a table option of an ALTER TABLE spec
processCharsetTarget(n, rules) ==
    IF n.kind = "ColumnDef" THEN checkColumnCharset(n, rules)
    ELSE processCharsetOption(n, rules)

RECURSIVE checkCharsetLoop(_, _, _)
checkCharsetLoop(acc, paths, rules) ==
    IF paths = <<>> THEN acc
    ELSE checkCharsetLoop(
             Folded(acc, Head(paths),
                    processCharsetTarget(GetNode(acc.node, Head(paths)), rules)),
             Tail(paths), rules)

OptionPaths(node) == [i \in 1..Len(node.Options) |-> <<Step("Options", i)>>]

checkTableCharset(node, rules) ==
    AccRes(checkCharsetLoop(NoAcc(node), OptionPaths(node), rules))

\* the spec children processAlterTableSpec looks at, in its loop order
AlterCharsetTargets(node) ==
    Flatten([k \in 1..Len(node.Specs) |->
        LET sp == node.Specs[k] IN
        CASE sp.Tp \in {"AlterTableAddColumns", "AlterTableModifyColumn",
                        "AlterTableChangeColumn"} ->
                [i \in 1..Len(sp.NewColumns) |-> <<Step("Specs", k), Step("NewColumns", i)>>]
          [] sp.Tp = "AlterTableOption" ->
                [i \in 1..Len(sp.Options) |-> <<Step("Specs", k), Step("Options", i)>>]
          [] OTHER -> <<>>])

checkAlterTableCharset(node, rules) ==
    AccRes(checkCharsetLoop(NoAcc(node), AlterCharsetTargets(node), rules))

CharsetInspect(n, rules) ==
    CASE n.kind = "CreateTableStmt" -> checkTableCharset(n, rules)
      [] n.kind = "ColumnDef" -> checkColumnCharset(n, rules)
      [] n.kind = "AlterTableStmt" -> checkAlterTableCharset(n, rules)
      [] OTHER -> Res(n, FALSE, <<>>)

\* ------------------------------------------------------------------------
\* SyntaxChecker
\* ------------------------------------------------------------------------
RECURSIVE AutoIncLoop(_, _, _, _, _)
\* the loop of checkColumnAutoIncrement: "for _, opt := range col.Options"
\* iterates over arr, the backing array of the slice as it was at loop start,
\* which replaceConstraint shifts when it removes an option from col.Options
AutoIncLoop(col, arr, i, rules, emits) ==
    IF i > Len(arr) THEN [node |-> col, ret |-> FALSE, emits |-> emits]
    ELSE IF IsAutoInc(arr[i]) /\ HasRule(rules, "AUTO_INCREMENT")
    THEN LET rule == rules["AUTO_INCREMENT"]
             r == ApplyTransformation(col, rule)
             em == Append(emits, Emit(Issue("SyntaxChecker", "AUTO_INCREMENT", rule), <<>>))
             m == Len(r.node.Options)
             arr2 == IF m < Len(col.Options)
                     THEN r.node.Options \o SubSeq(arr, m + 1, Len(arr))
                     ELSE arr
         IN IF ~r.same THEN [node |-> r.node, ret |-> TRUE, emits |-> em]
            ELSE AutoIncLoop(r.node, arr2, i + 1, rules, em)
    ELSE AutoIncLoop(col, arr, i + 1, rules, emits)

checkColumnAutoIncrement(col, rules) ==
    LET r == AutoIncLoop(col, col.Options, 1, rules, <<>>)
    IN Res(r.node, r.ret, r.emits)

RECURSIVE checkColumnsSyntaxLoop(_, _, _)
checkColumnsSyntaxLoop(acc, paths, rules) ==
    IF paths = <<>> THEN acc
    ELSE checkColumnsSyntaxLoop(
             Folded(acc, Head(paths),
                    checkColumnAutoIncrement(GetNode(acc.node, Head(paths)), rules)),
             Tail(paths), rules)

ColPaths(node) == [i \in 1..Len(node.Cols) |-> <<Step("Cols", i)>>]

checkColumnsSyntax(node, rules) ==
    checkColumnsSyntaxLoop(NoAcc(node), ColPaths(node), rules)

checkTableEngineOption(option, rules) ==
    IF option.Tp # TableOptionEngine \/ ~HasRule(rules, "ENGINE")
    THEN Res(option, FALSE, <<>>)
    ELSE LET rule == rules["ENGINE"]
             r == ApplyTransformation(option, rule)
         IN Res(r.node, ~r.same, <<Emit(Issue("SyntaxChecker", "ENGINE", rule), <<>>)>>)

RECURSIVE checkTableOptionsSyntaxLoop(_, _, _)
checkTableOptionsSyntaxLoop(acc, paths, rules) ==
    IF paths = <<>> THEN acc
    ELSE checkTableOptionsSyntaxLoop(
             Folded(acc, Head(paths),
                    checkTableEngineOption(GetNode(acc.node, Head(paths)), rules)),
             Tail(paths), rules)

checkTableOptionsSyntax(node, rules) ==
    checkTableOptionsSyntaxLoop(NoAcc(node), OptionPaths(node), rules)

\* hasTransform := checkColumnsSyntax(Cols) || checkTableOptionsSyntax(Options)
\* the table options are looked at only when no column had a transform
OptionsAfterColumns(c, rules) ==
    IF c.has THEN AccRes(c)
    ELSE AccRes(checkTableOptionsSyntaxLoop(c, OptionPaths(c.node), rules))

checkCreateTableSyntax(node, rules) ==
    OptionsAfterColumns(checkColumnsSyntax(node, rules), rules)

checkBacktickQuotes(node, originalName, rules) ==
    IF ~ContainsBacktick(originalName) \/ ~HasRule(rules, Backtick)
    THEN Res(node, FALSE, <<>>)
    ELSE LET rule == rules[Backtick]
             r == ApplyTransformation(node, rule)
         IN Res(r.node, ~r.same, <<Emit(Issue("SyntaxChecker", Backtick, rule), <<>>)>>)

\* the hard-coded issue of LOCK TABLES / UNLOCK TABLES: no rule, no rewrite
LockIssue(pattern) ==
    [Checker |-> "SyntaxChecker", Pattern |-> pattern, Target |-> "", Action |-> ""]

checkLockTablesSyntax(node) == Res(node, FALSE, <<Emit(LockIssue("LOCK TABLES"), <<>>)>>)

checkUnlockTablesSyntax(node) == Res(node, FALSE, <<Emit(LockIssue("UNLOCK TABLES"), <<>>)>>)

SyntaxInspect(n, rules) ==
    CASE n.kind = "CreateTableStmt" -> checkCreateTableSyntax(n, rules)
      [] n.kind = "TableName" -> checkBacktickQuotes(n, n.Name, rules)
      [] n.kind = "ColumnName" -> checkBacktickQuotes(n, n.Name, rules)
      [] n.kind = "LockTablesStmt" -> checkLockTablesSyntax(n)
      [] n.kind = "UnlockTablesStmt" -> checkUnlockTablesSyntax(n)
      [] OTHER -> Res(n, FALSE, <<>>)

\* ------------------------------------------------------------------------
\* The Checker interface.  Besides the four rule checkers the model has
\* "PanicChecker", an implementation of the interface whose Inspect panics
\* on the node kinds in PanicKinds and passes every other node through.
\* ------------------------------------------------------------------------
RuleCheckers == {"DataTypeChecker", "FunctionChecker", "SyntaxChecker", "CharsetChecker"}

CheckerNames == RuleCheckers \cup {"PanicChecker"}

CategoryOf(c) ==
    CASE c = "DataTypeChecker" -> "datatype"
      [] c = "FunctionChecker" -> "function"
      [] c = "SyntaxChecker" -> "syntax"
      [] c = "CharsetChecker" -> "charset"
      [] OTHER -> "none"

PanicKinds == {"ColumnDef", "SelectStmt"}

Panicked(node) == [node |-> node, skip |-> FALSE, emits |-> <<>>, panic |-> TRUE]

Inspect(c, n, cfg) ==
    LET rules == LoadRulesFromConfig(CategoryOf(c), cfg) IN
    CASE c = "DataTypeChecker" -> DataTypeInspect(n, rules)
      [] c = "FunctionChecker" -> FunctionInspect(n, rules)
      [] c = "SyntaxChecker" -> SyntaxInspect(n, rules)
      [] c = "CharsetChecker" -> CharsetInspect(n, rules)
      [] OTHER -> IF n.kind \in PanicKinds THEN Panicked(n) ELSE Res(n, FALSE, <<>>)

\* ------------------------------------------------------------------------
\* visitor.Enter
\* ------------------------------------------------------------------------
\* the issues of one Inspect call by checker i, as Enter sees them
EmitsOf(i, before, r) ==
    [k \in 1..Len(r.emits) |->
        [chk |-> i, issue |-> r.emits[k].issue, sub |-> r.emits[k].sub,
         changed |-> /\ r.node # Nil
                     /\ GetNode(r.node, r.emits[k].sub) # GetNode(before, r.emits[k].sub)]]

\* an Enter that keeps the node it was called with whatever a checker returns
AfterInspectNoReplace(acc, i, r) ==
    IF r.panic
    THEN [acc EXCEPT !.offered = Append(@, i), !.panics = Append(@, i)]
    ELSE [node |-> acc.node,
          skip |-> acc.skip \/ r.skip,
          emits |-> acc.emits \o EmitsOf(i, acc.node, r),
          offered |-> Append(acc.offered, i),
          panics |-> acc.panics]

\* the loop state after checker i returned r: a panic leaves node and skip
\* alone, and so does a nil node returned without the skip flag; a nil node
\* never replaces the node
AfterInspect(acc, i, r) ==
    IF r.panic
    THEN [acc EXCEPT !.offered = Append(@, i), !.panics = Append(@, i)]
    ELSE [node |-> IF r.node # Nil THEN r.node ELSE acc.node,
          skip |-> acc.skip \/ r.skip,
          emits |-> acc.emits \o EmitsOf(i, acc.node, r),
          offered |-> Append(acc.offered, i),
          panics |-> acc.panics]

RECURSIVE EnterLoopNoRecover(_, _, _, _)
\* an Enter without the recover: the panic of checker i ends the loop
EnterLoopNoRecover(checkers, i, cfg, acc) ==
    IF i > Len(checkers) \/ acc.panics # <<>> THEN acc
    ELSE EnterLoopNoRecover(checkers, i + 1, cfg,
                            AfterInspect(acc, i, Inspect(checkers[i], acc.node, cfg)))

RECURSIVE EnterLoop(_, _, _, _)
\* the loop over v.checkers; acc = [node, skip, emits, offered, panics]
\* emits: <<[chk, issue, sub, changed]>> in emission order (changed: the call
\* that emitted the issue left the node it reports on different); offered, panics: the
\* indices of the checkers whose Inspect was called / panicked on this node
EnterLoop(checkers, i, cfg, acc) ==
    IF i > Len(checkers) THEN acc
    ELSE EnterLoop(checkers, i + 1, cfg,
                   AfterInspect(acc, i, Inspect(checkers[i], acc.node, cfg)))

\* an Enter that never asks the walker to pass over the children
EnteredNoSkip(r) ==
    [node |-> r.node, skip |-> FALSE, emits |-> r.emits,
     offered |-> r.offered, panics |-> r.panics, vskip |-> FALSE]

\* the value Enter returns, with vskip the value of v.skipChildren on return
Entered(r) ==
    [node |-> r.node, skip |-> r.skip, emits |-> r.emits,
     offered |-> r.offered, panics |-> r.panics, vskip |-> r.skip]

\* Enter(node) with the visitor's cached flag vskip
Enter(node, vskip, checkers, cfg) ==
    IF node = Nil \/ vskip
    THEN [node |-> node, skip |-> TRUE, emits |-> <<>>, offered |-> <<>>,
          panics |-> <<>>, vskip |-> vskip]
    ELSE Entered(EnterLoop(checkers, 1, cfg,
                           [node |-> node, skip |-> FALSE, emits |-> <<>>,
                            offered |-> <<>>, panics |-> <<>>]))

\* ------------------------------------------------------------------------
\* One statement walk: stmt.Accept(v).  The walker keeps the paths still to
\* be entered (todo, next first); a node's children are pushed when its
\* Enter returns skipChildren = false.
\* ------------------------------------------------------------------------
Visit(si, path, kind, bypass, r) ==
    [si |-> si, path |-> path, kind |-> kind, bypass |-> bypass,
     offered |-> r.offered, panics |-> r.panics, skip |-> r.skip, emits |-> r.emits]

\* the paths of the children of node, which sits at path p
ChildPaths(p, node) ==
    [i \in 1..Len(Children(node)) |-> Append(p, Children(node)[i])]

\* the walk after Enter returned r on the node at the head of todo
Descend(w, si, kind, r) ==
    [tree |-> SetNode(w.tree, Head(w.todo), r.node),
     todo |-> (IF r.skip THEN <<>> ELSE ChildPaths(Head(w.todo), r.node))
              \o Tail(w.todo),
     vskip |-> r.vskip,
     visits |-> Append(w.visits, Visit(si, Head(w.todo), kind, w.vskip, r))]

WalkStep(w, si, checkers, cfg) ==
    Descend(w, si, GetNode(w.tree, Head(w.todo)).kind,
            Enter(GetNode(w.tree, Head(w.todo)), w.vskip, checkers, cfg))

RECURSIVE WalkAll(_, _, _, _)
\* stmt.Accept(v) run to its end
WalkAll(w, si, checkers, cfg) ==
    IF w.todo = <<>> THEN w ELSE WalkAll(WalkStep(w, si, checkers, cfg), si, checkers, cfg)

RECURSIVE CheckLoop(_, _, _, _, _)
\* Check's loop over the statements from index si on; acc = [stmts, visits]
CheckLoop(ss, si, checkers, cfg, acc) ==
    IF si > Len(ss) THEN acc
    ELSE IF ss[si] = Nil THEN CheckLoop(ss, si + 1, checkers, cfg, acc)
    ELSE LET w == WalkAll([tree |-> ss[si], todo |-> << <<>> >>, vskip |-> FALSE,
                           visits |-> acc.visits], si, checkers, cfg)
         IN CheckLoop(ss, si + 1, checkers, cfg,
                      [stmts |-> [acc.stmts EXCEPT ![si] = w.tree], visits |-> w.visits])

\* the issues checker i emitted, in emission order, read off the Enter calls
EmittedBy(vs, i) ==
    Flatten([k \in 1..Len(vs) |->
        LET mine == SelectSeq(vs[k].emits, LAMBDA e : e.chk = i)
        IN [j \in 1..Len(mine) |-> mine[j].issue]])

\* Check(stmts, checkers...) as one function, for a non-empty checker list:
\* [stmts: the transformed statements, visits, buf: each checker's issues]
CheckRun(ss, checkers, cfg) ==
    LET r == CheckLoop(ss, 1, checkers, cfg, [stmts |-> ss, visits |-> <<>>])
    IN [stmts |-> r.stmts, visits |-> r.visits,
        buf |-> [i \in 1..Len(checkers) |-> EmittedBy(r.visits, i)]]

\* ------------------------------------------------------------------------
\* Inputs
\* ------------------------------------------------------------------------
\* statements of the other kinds the parser reads: data manipulation, DROP
\* TABLE, CREATE INDEX, a query with every clause, key and default options,
\* keywords in lower case, comments, and the sample file of the tests
DmlTexts ==
    { "UPDATE users SET name = 'test' WHERE id = 1",
      "insert into users (name) values ('x'), (ifnull(a, -1))",
      "DELETE FROM <bq>c<bq><bq>d<bq> WHERE a = 1",
      "DROP TABLE IF EXISTS t, u",
      "CREATE INDEX idx_users_email ON users(email)",
      "select * from users where id = 1",
      "SELECT u.b, COUNT(*) AS n FROM users u LEFT JOIN orders ON a = b "
        \o "WHERE CASE WHEN a = 1 THEN 'x' END = 'x' "
        \o "GROUP BY b HAVING COUNT(*) > 10 ORDER BY n DESC LIMIT 10",
      "CREATE TABLE orders (\n\tid INT PRIMARY KEY AUTO_INCREMENT,\n"
        \o "\tuser_id INT NOT NULL,\n\tamount DECIMAL(10,2) DEFAULT 0.00,\n"
        \o "\tstatus ENUM('pending', 'completed', 'cancelled') DEFAULT 'pending',\n"
        \o "\tcreated_at TIMESTAMP DEFAULT CURRENT_TIMESTAMP,\n"
        \o "\tFOREIGN KEY (user_id) REFERENCES users(id)\n)",
      "ALTER TABLE users ADD COLUMN email_verified BOOLEAN DEFAULT FALSE",
      "-- sample SQL for tests\n"
        \o "CREATE TABLE users (id INT AUTO_INCREMENT PRIMARY KEY, "
        \o "name VARCHAR(255), tags JSON);\n"
        \o "SELECT GROUP_CONCAT(name) FROM users;\n",
      "-- a comment\nSELECT * FROM users; /* another */ "
        \o "INSERT INTO logs (msg) VALUES ('test');" }

StmtTexts ==
    { "CREATE TABLE t (a TINYINT, b TINYINT)",
      "CREATE TABLE t (a INT AUTO_INCREMENT, b VARCHAR(10) CHARACTER SET utf8mb4) "
        \o "ENGINE=InnoDB DEFAULT CHARSET=utf8mb4",
      "CREATE TABLE <bq>c<bq><bq>d<bq> (a TINYINT AUTO_INCREMENT, b mediumint)",
      "CREATE TABLE t (a VARCHAR(10) CHARACTER SET utf8mb4, b BOOLEAN)",
      "ALTER TABLE t ADD COLUMN (a TINYINT, b TINYINT), MODIFY COLUMN a INTEGER",
      "ALTER TABLE t DEFAULT CHARACTER SET = utf8mb4",
      "ALTER TABLE t ADD COLUMN a VARCHAR(10) CHARACTER SET utf8mb4, "
        \o "CHANGE COLUMN b c MEDIUMINT",
      "ALTER TABLE t ADD COLUMN a INT AUTO_INCREMENT, MODIFY COLUMN b INT AUTO_INCREMENT",
      "SELECT ifnull(a, _utf8mb4'x'), GROUP_CONCAT(b) FROM t",
      "CREATE TABLE t (a TINYINT AUTO_INCREMENT)",
      "SELECT GROUP_CONCAT(b) OVER (PARTITION BY a) FROM t",
      "LOCK TABLES t READ",
      "UNLOCK TABLES" }
    \cup DmlTexts

RECURSIVE JoinSet(_, _)
\* the texts of 1..n statements of S, joined with "; "
JoinSet(S, n) ==
    IF n = 1 THEN S
    ELSE LET shorter == JoinSet(S, n - 1) IN
         shorter \cup {t \o "; " \o s : t \in shorter, s \in S}

\* the statements that also appear in scripts of several statements
BatchStmts ==
    { "CREATE TABLE t (a TINYINT, b TINYINT)",
      "CREATE TABLE <bq>c<bq><bq>d<bq> (a TINYINT AUTO_INCREMENT, b mediumint)",
      "SELECT ifnull(a, _utf8mb4'x'), GROUP_CONCAT(b) FROM t",
      "LOCK TABLES t READ" }

SqlTexts ==
    StmtTexts \cup JoinSet(BatchStmts, MaxStmts)
    \cup {"", " \t\n", ";", "INVALID", "SELECT * FROM users WHERE", "UNLOCK TABLES;"}

Injective(s) == \A i, j \in 1..Len(s) : i # j => s[i] # s[j]

CheckerLists == {cs \in SeqsUpTo(CheckerNames, MaxCheckers) : Injective(cs)}

Catalogs == {DefaultCatalog}

\* the source name the callers of AnalyzeSQL pass for an inline text
Source == "test"

NoResult ==
    [SQL |-> "", Source |-> "", Issues |-> <<>>, IssuesNil |-> TRUE,
     TransformedSQL |-> "", Error |-> ""]

\* ------------------------------------------------------------------------
\* State
\* ------------------------------------------------------------------------
VARIABLES
    sql,          \* the text handed to AnalyzeSQL
    checkers,     \* SQLAnalyzer.checkers, in registration order
    cfg,          \* the rule catalog the checkers were built from
    pc,           \* "start", "walk", "restore", "done"
    pass,         \* 1: analysis of the input; 2: analysis of its transformed SQL
    parsed,       \* the statements as ParseSQL returned them
    stmts,        \* the statements, mutated in place by the walk
    transformed,  \* CheckResult.TransformedStmts
    si,           \* index of the statement being walked (0 before the first)
    todo,         \* node paths of statement si still to be entered
    vskip,        \* visitor.skipChildren
    buf,          \* buf[i]: the issue buffer of checkers[i]
    visits,       \* history: one record per Enter call of this analysis
    allIssues,    \* CheckResult.Issues
    issuesNil,    \* CheckResult.Issues is a nil slice
    result,       \* the AnalysisResult returned
    err,          \* the error returned: "nil" or an ErrorType
    first,        \* the result of pass 1, kept while pass 2 runs
    mode,         \* the entry point called: "AnalyzeSQL", "AnalyzeFile", ...
    fs,           \* the entries under the directory, in the order of the walk
    fi,           \* the number of entries the directory walk has visited
    source,       \* the source an entry point hands to AnalyzeSQL
    viaFile,      \* AnalyzeFile made the call of AnalyzeSQL
    walking,      \* the call of AnalyzeSQL was made by the directory walk
    analysis,     \* the result AnalyzeSQL returned to the entry point
    mu,           \* RuleChecker.mu: the writers and readers holding the lock
    heap,         \* the backing arrays allocated for RuleChecker.issues
    issues,       \* RuleChecker.issues of the shared checker: a slice header
    gor,           \* the goroutines calling the shared checker
    category,     \* RuleChecker.category of the checker that loads its rules
    rules,        \* RuleChecker.rules: upper(pattern) -> rule
    ri,           \* the index in cfg.Rules of the next rule LoadRulesFromConfig looks at
    categories,   \* the category names handed to CreateCheckers
    ci,           \* the index of the next category CreateCheckers looks at
    created,      \* what CreateCheckers returned: the list, whether it is nil, the error
    argv,         \* the command line and what the process finds in its environment
    stage,        \* the position of the command line program
    exitCode,     \* the exit status of the process, once stage is exited
    cause,        \* history: the sort of failure that ended the process
    dirIssues    \* AnalyzeDirectory's allIssues while Check's own is in use

vars == <<sql, checkers, cfg, pc, pass, parsed, stmts, transformed, si, todo,
          vskip, buf, visits, allIssues, issuesNil, result, err, first,
          mode, fs, fi, source, viaFile, walking, analysis,
          mu, heap, issues, gor,
          category, rules, ri,
          categories, ci, created,
          argv, stage, exitCode, cause,
          dirIssues>>

\* what the analysis of one SQL text leaves alone
fsvars == <<mode, fs, fi, source, viaFile, walking, analysis,
          mu, heap, issues, gor,
          category, rules, ri,
          categories, ci, created,
          argv, stage, exitCode, cause,
          dirIssues>>

\* no goroutine is running on a shared checker
NoGoroutines ==
    /\ mu = [w |-> 0, r |-> 0]
    /\ heap = <<>>
    /\ issues = [arr |-> 0, len |-> 0, cap |-> 0]
    /\ gor = <<>>


\* no checker is loading rules
NoLoading ==
    /\ category = ""
    /\ rules = <<>>
    /\ ri = 0


\* CreateCheckers has not been called
NoReturn == [checkers |-> <<>>, isNil |-> TRUE, err |-> "none"]

NoFactoryCall ==
    /\ categories = <<>>
    /\ ci = 0
    /\ created = NoReturn


\* the command line program is not running
NoProcess ==
    /\ argv = <<>>
    /\ stage = "none"
    /\ exitCode = 0
    /\ cause = "none"


\* no directory is being walked step by step
NoWalk == dirIssues = <<>>


Init ==
    /\ sql \in SqlTexts
    /\ checkers \in CheckerLists
    /\ cfg \in Catalogs
    /\ pc = "start"
    /\ pass = 1
    /\ parsed = <<>>
    /\ stmts = <<>>
    /\ transformed = <<>>
    /\ si = 0
    /\ todo = <<>>
    /\ vskip = FALSE
    /\ buf = [i \in 1..Len(checkers) |-> <<>>]
    /\ visits = <<>>
    /\ allIssues = <<>>
    /\ issuesNil = TRUE
    /\ result = NoResult
    /\ err = "nil"
    /\ first = NoResult
    /\ mode = "AnalyzeSQL"
    /\ fs = <<>>
    /\ fi = 0
    /\ source = Source
    /\ viaFile = FALSE
    /\ walking = FALSE
    /\ analysis = NoResult
    /\ NoGoroutines
    /\ NoLoading
    /\ NoFactoryCall
    /\ NoProcess
    /\ NoWalk

\* AnalyzeSQL(sql, source): every result carries Source: source
ErrResult(msg) ==
    [SQL |-> sql, Source |-> source, Issues |-> <<>>, IssuesNil |-> TRUE,
     TransformedSQL |-> "", Error |-> msg]

\* AnalyzeSQL, parse error branch
ParseError ==
    /\ pc = "start"
    /\ ParseSQL(sql).err
    /\ result' = ErrResult("parse")
    /\ err' = "nil"
    /\ pc' = "done"
    /\ UNCHANGED <<sql, checkers, cfg, pass, parsed, stmts, transformed, si, todo,
                   vskip, buf, visits, allIssues, issuesNil, first>>
    /\ UNCHANGED fsvars

\* AnalyzeSQL, len(stmts) == 0 branch
NoSQL ==
    /\ pc = "start"
    /\ ~ParseSQL(sql).err
    /\ ParseSQL(sql).stmts = <<>>
    /\ result' = ErrResult("no_sql")
    /\ err' = "nil"
    /\ pc' = "done"
    /\ UNCHANGED <<sql, checkers, cfg, pass, parsed, stmts, transformed, si, todo,
                   vskip, buf, visits, allIssues, issuesNil, first>>
    /\ UNCHANGED fsvars

\* Check with no checkers: the quick return of an empty CheckResult
CheckEmpty ==
    /\ pc = "start"
    /\ ~ParseSQL(sql).err
    /\ ParseSQL(sql).stmts # <<>>
    /\ Len(checkers) = 0
    /\ parsed' = ParseSQL(sql).stmts
    /\ stmts' = ParseSQL(sql).stmts
    /\ transformed' = <<>>
    /\ allIssues' = <<>>
    /\ issuesNil' = TRUE
    /\ visits' = <<>>
    /\ si' = 0
    /\ pc' = "restore"
    /\ UNCHANGED <<sql, checkers, cfg, pass, todo, vskip, buf, result, err, first>>
    /\ UNCHANGED fsvars

\* a Check that does not Reset the checkers
CheckBeginNoReset ==
    /\ pc = "start"
    /\ ~ParseSQL(sql).err
    /\ ParseSQL(sql).stmts # <<>>
    /\ Len(checkers) > 0
    /\ parsed' = ParseSQL(sql).stmts
    /\ stmts' = ParseSQL(sql).stmts
    /\ transformed' = [i \in 1..Len(ParseSQL(sql).stmts) |-> Nil]
    /\ buf' = buf
    /\ visits' = <<>>
    /\ si' = 0
    /\ todo' = <<>>
    /\ vskip' = FALSE
    /\ pc' = "walk"
    /\ UNCHANGED <<sql, checkers, cfg, pass, allIssues, issuesNil, result, err, first>>
    /\ UNCHANGED fsvars

\* Check: every checker is Reset and the visitor is created
CheckBegin ==
    /\ pc = "start"
    /\ ~ParseSQL(sql).err
    /\ ParseSQL(sql).stmts # <<>>
    /\ Len(checkers) > 0
    /\ parsed' = ParseSQL(sql).stmts
    /\ stmts' = ParseSQL(sql).stmts
    /\ transformed' = [i \in 1..Len(ParseSQL(sql).stmts) |-> Nil]
    /\ buf' = [i \in 1..Len(checkers) |-> <<>>]
    /\ visits' = <<>>
    /\ si' = 0
    /\ todo' = <<>>
    /\ vskip' = FALSE
    /\ pc' = "walk"
    /\ UNCHANGED <<sql, checkers, cfg, pass, allIssues, issuesNil, result, err, first>>
    /\ UNCHANGED fsvars

\* a Check that does not Reset the visitor before a statement
NextStmtNoReset ==
    /\ pc = "walk"
    /\ todo = <<>>
    /\ si < Len(stmts)
    /\ si' = si + 1
    /\ IF stmts[si + 1] = Nil
       THEN UNCHANGED <<todo, vskip>>
       ELSE /\ vskip' = vskip
            /\ todo' = << <<>> >>
    /\ UNCHANGED <<sql, checkers, cfg, pc, pass, parsed, stmts, transformed, buf,
                   visits, allIssues, issuesNil, result, err, first>>
    /\ UNCHANGED fsvars

\* Check's loop: the next statement; v.Reset() and the walk starts at its root
NextStmt ==
    /\ pc = "walk"
    /\ todo = <<>>
    /\ si < Len(stmts)
    /\ si' = si + 1
    /\ IF stmts[si + 1] = Nil
       THEN UNCHANGED <<todo, vskip>>
       ELSE /\ vskip' = FALSE
            /\ todo' = << <<>> >>
    /\ UNCHANGED <<sql, checkers, cfg, pc, pass, parsed, stmts, transformed, buf,
                   visits, allIssues, issuesNil, result, err, first>>
    /\ UNCHANGED fsvars

AppendEmits(b, emits) ==
    [i \in DOMAIN b |->
        b[i] \o [k \in 1..Len(SelectSeq(emits, LAMBDA e : e.chk = i)) |->
                    SelectSeq(emits, LAMBDA e : e.chk = i)[k].issue]]

\* the visitor, the statement and the checkers' buffers after the walk step w
Walked(w) ==
    /\ stmts' = [stmts EXCEPT ![si] = w.tree]
    /\ todo' = w.todo
    /\ vskip' = w.vskip
    /\ visits' = w.visits
    /\ buf' = AppendEmits(buf, w.visits[Len(w.visits)].emits)
    /\ transformed' = IF w.todo = <<>>
                      THEN [transformed EXCEPT ![si] = w.tree]
                      ELSE transformed

\* visitor.Enter on the next node of the walk (with the walker's descent)
EnterNode ==
    /\ pc = "walk"
    /\ todo # <<>>
    /\ Walked(WalkStep([tree |-> stmts[si], todo |-> todo, vskip |-> vskip,
                        visits |-> visits], si, checkers, cfg))
    /\ UNCHANGED <<sql, checkers, cfg, pc, pass, parsed, si, allIssues, issuesNil,
                   result, err, first>>
    /\ UNCHANGED fsvars

\* a Check that gathers the buffers last checker first
CollectIssuesLastFirst(b) == Flatten([i \in 1..Len(b) |-> b[Len(b) + 1 - i]])

\* Check's tail: the issues of every checker, in registration order
CollectIssues(b) == Flatten([i \in 1..Len(b) |-> b[i]])

Collect ==
    /\ pc = "walk"
    /\ todo = <<>>
    /\ si = Len(stmts)
    /\ allIssues' = CollectIssues(buf)
    /\ issuesNil' = (CollectIssues(buf) = <<>>)
    /\ pc' = "restore"
    /\ UNCHANGED <<sql, checkers, cfg, pass, parsed, stmts, transformed, si, todo,
                   vskip, buf, visits, result, err, first>>
    /\ UNCHANGED fsvars

\* AnalyzeSQL: generateSQL succeeded
GenerateOk ==
    /\ pc = "restore"
    /\ result' = [SQL |-> sql, Source |-> source, Issues |-> allIssues,
                  IssuesNil |-> issuesNil,
                  TransformedSQL |-> generateSQL(transformed, 0).sql, Error |-> ""]
    /\ err' = "nil"
    /\ pc' = "done"
    /\ UNCHANGED <<sql, checkers, cfg, pass, parsed, stmts, transformed, si, todo,
                   vskip, buf, visits, allIssues, issuesNil, first>>
    /\ UNCHANGED fsvars

\* AnalyzeSQL: the restorer reported an error on statement k
GenerateFail ==
    /\ pc = "restore"
    /\ \E k \in 1..Len(transformed) : generateSQL(transformed, k).err
    /\ result' = ErrResult("transform")
    /\ err' = "nil"
    /\ pc' = "done"
    /\ UNCHANGED <<sql, checkers, cfg, pass, parsed, stmts, transformed, si, todo,
                   vskip, buf, visits, allIssues, issuesNil, first>>
    /\ UNCHANGED fsvars

\* the caller analyses the transformed SQL again with the same analyzer
Reanalyze ==
    /\ pc = "done"
    /\ pass = 1
    /\ result.Error = ""
    /\ result.TransformedSQL # ""
    /\ first' = result
    /\ sql' = result.TransformedSQL
    /\ pass' = 2
    /\ pc' = "start"
    /\ result' = NoResult
    /\ UNCHANGED <<checkers, cfg, parsed, stmts, transformed, si, todo, vskip, buf,
                   visits, allIssues, issuesNil, err>>
    /\ UNCHANGED fsvars

Next ==
    \/ ParseError
    \/ NoSQL
    \/ CheckEmpty
    \/ CheckBegin
    \/ NextStmt
    \/ EnterNode
    \/ Collect
    \/ GenerateOk
    \/ GenerateFail
    \/ Reanalyze

Spec == Init /\ [][Next]_vars

\* ------------------------------------------------------------------------
\* Files, logs and directories.  A file has a name and its content, one
\* text; a line of a general log starts with a timestamp, a thread id and
\* a command.
\* ------------------------------------------------------------------------
MaxFiles == 2

\* file names: the extensions the entry points tell apart, in mixed case
FileNames == {"f.sql", "f.Sql", "f.Log", "f.TXT", "f.md"}

Stamp == "2023-12-23T08:00:01.234567Z"

\* one line of a general log
LogLine(cmd, text) == Stamp \o "\t    1 " \o cmd \o "\t" \o text \o "\n"

GeneralLog ==
    "mysqld, Version: 8.0.30 (MySQL Community Server - GPL). started with:\n"
    \o LogLine("Connect", "root@localhost on test using TCP/IP")
    \o LogLine("Query", "BEGIN")
    \o LogLine("Query", "beginner")
    \o LogLine("Query", "select database()")
    \o LogLine("Query", "SELECT @@version")
    \o LogLine("Query", "set names utf8")
    \o LogLine("Query", "commit")
    \o LogLine("Query", "start transaction")
    \o LogLine("Query", "SELECT ifnull(a, _utf8mb4'x'), GROUP_CONCAT(b) FROM t")
    \o "\n"
    \o LogLine("Query", "")
    \o LogLine("Query", "LOCK TABLES t READ;")
    \o LogLine("Quit", "")

FileContents ==
    { "",
      "CREATE TABLE t (a TINYINT, b TINYINT)",
      "INVALID",
      GeneralLog,
      Stamp \o " 1 Query SET(x)",
      "-- sample SQL for tests\n"
        \o "CREATE TABLE users (id INT AUTO_INCREMENT PRIMARY KEY, "
        \o "name VARCHAR(255), tags JSON);\n"
        \o "SELECT GROUP_CONCAT(name) FROM users;\n" }

File(name, readable, content) ==
    [name |-> name, isDir |-> FALSE, readable |-> readable, content |-> content]

SubDir == [name |-> "sub", isDir |-> TRUE, readable |-> TRUE, content |-> ""]

FileEntries ==
    {File(n, TRUE, t) : n \in FileNames, t \in FileContents}
    \cup {File(n, FALSE, "") : n \in {"f.sql", "f.Log"}}
    \cup {File("catalog.md", TRUE, ""), SubDir}

Dirs == SeqsUpTo(FileEntries, MaxFiles)

DirPath == "dir"

\* the path of the i-th entry the walk of the directory meets; the walk is
\* in lexical order of the names
Path(i) == DirPath \o "/" \o ToString(i) \o fs[i].name

\* the checkers the file entry points are called with
FileCheckerLists ==
    {<<>>, <<"DataTypeChecker", "FunctionChecker", "SyntaxChecker", "CharsetChecker">>}

IgnoredPrefixes ==
    << "SET ", "SHOW ", "USE ", "BEGIN", "COMMIT", "ROLLBACK", "START TRANSACTION",
       "SET NAMES", "SELECT DATABASE()", "SELECT USER()", "SELECT @@" >>

isIgnoredSQL(sql_) ==
    \E i \in 1..Len(IgnoredPrefixes) :
        HasPrefix(ToUpper(TrimSpace(sql_)), IgnoredPrefixes[i])

\* the layout of the timestamp up to its fraction: 0 stands for a digit
StampLayout == Chars("0000-00-00T00:00:00.")

\* \w of the regular expression
RegexWord == Letters \cup Digits \cup {"_"}

\* the end of the longest run of characters of class that starts at i;
\* i - 1 when c[i] is not of the class
RunEnd(c, i, class) ==
    IF \E k \in i..Len(c) : c[k] \notin class
    THEN (CHOOSE k \in i..Len(c) :
             c[k] \notin class /\ \A j \in i..(k - 1) : c[j] \in class) - 1
    ELSE Len(c)

NoMatch == [ok |-> FALSE, cmd |-> "", sql |-> ""]

\* logLineRegex, from the command on: (\w+)\s+(.*)$
MatchCommand(t, c, from, w, s) ==
    IF w < from \/ s <= w THEN NoMatch
    ELSE [ok |-> TRUE, cmd |-> SubSeq(t, from, w), sql |-> SubSeq(t, s + 1, Len(t))]

\* logLineRegex, from the thread id on: (\d+)\s+
MatchThread(t, c, from, d, s) ==
    IF d < from \/ s <= d THEN NoMatch
    ELSE MatchCommand(t, c, s + 1, RunEnd(c, s + 1, RegexWord),
                      RunEnd(c, RunEnd(c, s + 1, RegexWord) + 1, Whitespace))

\* logLineRegex, the end of the timestamp: \d+Z\s+
MatchFraction(t, c, d, s) ==
    IF d < Len(StampLayout) + 1 \/ d >= Len(c) THEN NoMatch
    ELSE IF c[d + 1] # "Z" \/ s < d + 2 THEN NoMatch
    ELSE MatchThread(t, c, s + 1, RunEnd(c, s + 1, Digits),
                     RunEnd(c, RunEnd(c, s + 1, Digits) + 1, Whitespace))

MatchLayout(c) ==
    /\ Len(c) >= Len(StampLayout)
    /\ \A i \in 1..Len(StampLayout) :
          IF StampLayout[i] = "0" THEN c[i] \in Digits ELSE c[i] = StampLayout[i]

\* logLinePattern.FindStringSubmatch on the trimmed line t
MatchLogLine(t) ==
    IF ~MatchLayout(Chars(t)) THEN NoMatch
    ELSE MatchFraction(t, Chars(t), RunEnd(Chars(t), Len(StampLayout) + 1, Digits),
                       RunEnd(Chars(t),
                              RunEnd(Chars(t), Len(StampLayout) + 1, Digits) + 2,
                              Whitespace))

\* the SQL of one log line, "" for a line that carries none
parseLogLine(line) ==
    LET t == TrimSpace(line)
        matches == MatchLogLine(t)
    IN IF t = "" THEN ""
       ELSE IF ~matches.ok THEN ""
       ELSE IF matches.cmd # "Query" THEN ""
       ELSE IF TrimSpace(matches.sql) = "" THEN ""
       ELSE IF isIgnoredSQL(TrimSpace(matches.sql)) THEN ""
       ELSE TrimSpace(matches.sql)

\* what the loop writes for the lines: the SQL of a line, ";" unless the
\* SQL ends with one, and a line break
WrittenLines(lines) ==
    [i \in 1..Len(lines) |->
        LET text == parseLogLine(lines[i]) IN
        IF text = "" THEN ""
        ELSE IF HasSuffix(text, ";") THEN text \o "\n"
        ELSE text \o ";\n"]

parseGeneralLog(content) ==
    Concat(WrittenLines(ScanLines(content)), 1, Len(ScanLines(content)))

isLogFile(path) == ToLower(Ext(path)) = ".log"

\* GeneralLogFileParser on the existing path of f
ParseFile(path, f) ==
    IF f.isDir THEN [err |-> TRUE, content |-> ""]
    ELSE IF ~isLogFile(path) THEN [err |-> TRUE, content |-> ""]
    ELSE IF ~f.readable THEN [err |-> TRUE, content |-> ""]
    ELSE [err |-> FALSE, content |-> parseGeneralLog(f.content)]

\* SQLFileParser.Parse on the existing path of f
Parse(path, f) ==
    IF f.isDir THEN [err |-> TRUE, content |-> ""]
    ELSE IF ToLower(Ext(path)) # ".sql" THEN [err |-> TRUE, content |-> ""]
    ELSE IF ~f.readable THEN [err |-> TRUE, content |-> ""]
    ELSE [err |-> FALSE, content |-> f.content]

\* ------------------------------------------------------------------------
\* The entry points as functions of their input.  failAt > 0 is the
\* statement the restorer reports an error on.
\* ------------------------------------------------------------------------
AnalysisResult(text, src, found, isNil, tsql, error) ==
    [SQL |-> text, Source |-> src, Issues |-> found, IssuesNil |-> isNil,
     TransformedSQL |-> tsql, Error |-> error]

Returned(res, e) == [res |-> res, err |-> e]

\* the one element of a singleton set: The({F(x) : x \in {e}}) is F(e) with e
\* evaluated once
The(S) == CHOOSE x \in S : TRUE

CheckResult(run) ==
    [Issues |-> CollectIssues(run.buf),
     IssuesNil |-> CollectIssues(run.buf) = <<>>,
     TransformedStmts |-> run.stmts]

Check(ss, cs, c) ==
    IF Len(cs) = 0 \/ Len(ss) = 0
    THEN [Issues |-> <<>>, IssuesNil |-> TRUE, TransformedStmts |-> <<>>]
    ELSE The({CheckResult(run) : run \in {CheckRun(ss, cs, c)}})

AnalyzeSQLGenerated(text, src, chk, gen) ==
    IF gen.err
    THEN AnalysisResult(text, src, <<>>, TRUE, "", "transform")
    ELSE AnalysisResult(text, src, chk.Issues, chk.IssuesNil, gen.sql, "")

AnalyzeSQLChecked(text, src, chk, failAt) ==
    The({AnalyzeSQLGenerated(text, src, chk, gen) :
            gen \in {generateSQL(chk.TransformedStmts, failAt)}})

AnalyzeSQLParsed(text, src, p, cs, c, failAt) ==
    IF p.err THEN AnalysisResult(text, src, <<>>, TRUE, "", "parse")
    ELSE IF Len(p.stmts) = 0
    THEN AnalysisResult(text, src, <<>>, TRUE, "", "no_sql")
    ELSE The({AnalyzeSQLChecked(text, src, chk, failAt) :
                 chk \in {Check(p.stmts, cs, c)}})

AnalyzeSQLText(text, src, cs, c, failAt) ==
    The({AnalyzeSQLParsed(text, src, p, cs, c, failAt) : p \in {ParseSQL(text)}})

AnalyzeSQL(text, src, cs, c, failAt) ==
    Returned(The({AnalyzeSQLText(t, src, cs, c, failAt) : t \in {text}}), "nil")

\* if result.Issues == nil { result.Issues = []model.Issue{} }
NonNilIssues(r) == [r EXCEPT !.IssuesNil = FALSE]

\* what an entry point hands to AnalyzeSQL: the text read from the entry, or
\* the failure to read it; viaFile: AnalyzeFile made the call
Read(failed, text, via) == [err |-> failed, content |-> text, viaFile |-> via]

\* AnalyzeFile up to its call of AnalyzeSQL
AnalyzeFileRead(path, f) == Read(Parse(path, f).err, Parse(path, f).content, TRUE)

\* the log branch up to its call of AnalyzeSQL
LogRead(path, f) ==
    Read(ParseFile(path, f).err, ParseFile(path, f).content, FALSE)

\* the walk function of AnalyzeDirectory up to its call of AnalyzeSQL
WalkRead(path, f) ==
    CASE ToLower(Ext(path)) = ".sql" -> AnalyzeFileRead(path, f)
      [] ToLower(Ext(path)) \in {".log", ".txt"} ->
            IF ParseFile(path, f).err THEN AnalyzeFileRead(path, f)
            ELSE LogRead(path, f)
      [] OTHER ->
            IF ~Parse(path, f).err THEN AnalyzeFileRead(path, f)
            ELSE LogRead(path, f)

\* AnalyzeInput on the path of a file up to its call of AnalyzeSQL
InputRead(path, f) ==
    IF ToLower(Ext(path)) = ".sql" THEN AnalyzeFileRead(path, f)
    ELSE IF \/ ToLower(Ext(path)) \in {".log", ".txt"}
            \/ Contains(ToLower(path), "log")
    THEN LogRead(path, f)
    ELSE AnalyzeFileRead(path, f)

ErrorIssue(path, message) ==
    [Checker |-> "Error", Message |-> message, Line |-> 0, File |-> path]

\* the inputs of AnalyzeInput that are no path: a SQL string, an io.Reader
\* (ok: io.ReadAll succeeds) and a value of any other type
InlineTexts ==
    { "", "INVALID", "CREATE TABLE t (a TINYINT, b TINYINT)", "UNLOCK TABLES" }

InlineSources ==
    {[type |-> "string", text |-> t, ok |-> TRUE] : t \in InlineTexts}
    \cup {[type |-> "io.Reader", text |-> t, ok |-> TRUE] : t \in InlineTexts}
    \cup {[type |-> "io.Reader", text |-> "", ok |-> FALSE],
          [type |-> "unknown", text |-> "", ok |-> TRUE]}

InlineSourceName(v) == IF v.type = "string" THEN "input_string" ELSE v.type

\* ------------------------------------------------------------------------
\* The file entry points as a state machine: one call of AnalyzeFile,
\* AnalyzeDirectory or AnalyzeInput on the directory fs.
\* ------------------------------------------------------------------------
FileInit ==
    /\ fs \in Dirs
    /\ checkers \in FileCheckerLists
    /\ cfg \in Catalogs
    /\ mode = "idle"
    /\ pc = "start"
    /\ fi = 0
    /\ source = ""
    /\ viaFile = FALSE
    /\ walking = FALSE
    /\ analysis = NoResult
    /\ sql = ""
    /\ pass = 1
    /\ parsed = <<>>
    /\ stmts = <<>>
    /\ transformed = <<>>
    /\ si = 0
    /\ todo = <<>>
    /\ vskip = FALSE
    /\ buf = <<>>
    /\ visits = <<>>
    /\ allIssues = <<>>
    /\ issuesNil = TRUE
    /\ result = NoResult
    /\ err = "nil"
    /\ first = NoResult
    /\ NoGoroutines
    /\ NoLoading
    /\ NoFactoryCall
    /\ NoProcess
    /\ NoWalk

\* what the file entry points leave alone
sqlvars == <<checkers, cfg, pass, parsed, stmts, transformed, si, todo, vskip,
             buf, visits, first, fs,
          mu, heap, issues, gor,
          category, rules, ri,
          categories, ci, created,
          argv, stage, exitCode, cause,
          dirIssues>>

Return(res, e) ==
    /\ result' = res
    /\ err' = e
    /\ pc' = "done"

\* the entry point reaches its call of AnalyzeSQL, or returns the read error
CallAnalyzeSQL(path, r, failed, e) ==
    IF r.err
    THEN /\ Return(failed, e)
         /\ UNCHANGED <<sql, source, viaFile>>
    ELSE /\ sql' = r.content
         /\ source' = path
         /\ viaFile' = r.viaFile
         /\ pc' = "analyze"
         /\ UNCHANGED <<result, err>>

\* AnalyzeFile(path, ...) on an entry of the directory
AnalyzeFileCall ==
    /\ pc = "start"
    /\ \E i \in 1..Len(fs) :
          /\ CallAnalyzeSQL(Path(i), AnalyzeFileRead(Path(i), fs[i]), NoResult, "read")
          /\ fi' = i
    /\ mode' = "AnalyzeFile"
    /\ UNCHANGED <<allIssues, issuesNil, walking, analysis>>
    /\ UNCHANGED sqlvars

\* AnalyzeInput on the path of a file
AnalyzeInputPath ==
    /\ pc = "start"
    /\ \E i \in 1..Len(fs) :
          /\ ~fs[i].isDir
          /\ CallAnalyzeSQL(Path(i), InputRead(Path(i), fs[i]),
                            IF InputRead(Path(i), fs[i]).viaFile THEN NoResult
                            ELSE AnalysisResult("", Path(i), <<>>, TRUE, "", "read_log"),
                            IF InputRead(Path(i), fs[i]).viaFile THEN "read" ELSE "read_log")
          /\ fi' = i
    /\ mode' = "AnalyzeInput"
    /\ UNCHANGED <<allIssues, issuesNil, walking, analysis>>
    /\ UNCHANGED sqlvars

\* AnalyzeInput on a SQL string, a reader or a value of another type
AnalyzeInputInline ==
    /\ pc = "start"
    /\ \E v \in InlineSources :
          IF v.type = "unknown"
          THEN /\ Return(AnalysisResult("", "unknown", <<>>, TRUE, "", "unsupported"),
                         "unsupported")
               /\ UNCHANGED <<sql, source, viaFile>>
          ELSE CallAnalyzeSQL(InlineSourceName(v), Read(~v.ok, v.text, FALSE),
                              AnalysisResult("", "io.Reader", <<>>, TRUE, "",
                                             "read_stream"),
                              "read_stream")
    /\ mode' = "AnalyzeInput"
    /\ UNCHANGED <<allIssues, issuesNil, walking, analysis, fi>>
    /\ UNCHANGED sqlvars

\* AnalyzeDirectory on a path os.Stat fails for
DirStatFails ==
    /\ pc = "start"
    /\ Return(AnalysisResult("", "missing", <<>>, TRUE, "", "stat"), "stat")
    /\ mode' = "AnalyzeDirectory"
    /\ UNCHANGED <<allIssues, issuesNil, fi, walking, analysis, sql, source, viaFile>>
    /\ UNCHANGED sqlvars

\* AnalyzeDirectory on the path of a file
DirNotDir ==
    /\ pc = "start"
    /\ \E i \in 1..Len(fs) :
          /\ ~fs[i].isDir
          /\ Return(AnalysisResult("", Path(i), <<>>, TRUE, "", "not_dir"), "nil")
          /\ fi' = i
    /\ mode' = "AnalyzeDirectory"
    /\ UNCHANGED <<allIssues, issuesNil, walking, analysis, sql, source, viaFile>>
    /\ UNCHANGED sqlvars

\* AnalyzeDirectory on the directory, called directly or by AnalyzeInput
DirBegin ==
    /\ pc = "start"
    /\ mode' \in {"AnalyzeDirectory", "AnalyzeInput"}
    /\ allIssues' = <<>>
    /\ issuesNil' = TRUE
    /\ fi' = 0
    /\ walking' = TRUE
    /\ pc' = "dirwalk"
    /\ UNCHANGED <<result, err, analysis, sql, source, viaFile>>
    /\ UNCHANGED sqlvars

\* filepath.Walk calls the walk function on the next entry: a directory is
\* passed over, a file is read; a read error ends the walk
WalkEntry ==
    /\ pc = "dirwalk"
    /\ fi < Len(fs)
    /\ fi' = fi + 1
    /\ IF fs[fi + 1].isDir
       THEN UNCHANGED <<result, err, pc, sql, source, viaFile>>
       ELSE CallAnalyzeSQL(Path(fi + 1), WalkRead(Path(fi + 1), fs[fi + 1]),
                           AnalysisResult("", DirPath, <<>>, TRUE, "", "walk"), "nil")
    /\ UNCHANGED <<allIssues, issuesNil, mode, walking, analysis>>
    /\ UNCHANGED sqlvars

\* analyzer.AnalyzeSQL(content, path)
AnalyzeText ==
    /\ pc = "analyze"
    /\ \E failAt \in 0..1 :
          analysis' = AnalyzeSQL(sql, source, checkers, cfg, failAt).res
    /\ pc' = "analyzed"
    /\ UNCHANGED <<allIssues, issuesNil, mode, walking, fi, result, err, sql, source,
                   viaFile>>
    /\ UNCHANGED sqlvars

\* AnalyzeFile and AnalyzeInput return the result of AnalyzeSQL
FileReturn ==
    /\ pc = "analyzed"
    /\ ~walking
    /\ Return(IF viaFile THEN NonNilIssues(analysis) ELSE analysis, "nil")
    /\ UNCHANGED <<allIssues, issuesNil, mode, walking, fi, analysis, sql, source,
                   viaFile>>
    /\ UNCHANGED sqlvars

\* the walk function appends to allIssues and returns nil
WalkAppend ==
    /\ pc = "analyzed"
    /\ walking
    /\ IF analysis.Error # ""
       THEN /\ allIssues' = Append(allIssues, ErrorIssue(source, analysis.Error))
            /\ issuesNil' = FALSE
       ELSE /\ allIssues' = allIssues \o analysis.Issues
            /\ issuesNil' = (issuesNil /\ analysis.Issues = <<>>)
    /\ pc' = "dirwalk"
    /\ UNCHANGED <<result, err, mode, walking, fi, analysis, sql, source, viaFile>>
    /\ UNCHANGED sqlvars

\* filepath.Walk returned nil
WalkEnd ==
    /\ pc = "dirwalk"
    /\ fi = Len(fs)
    /\ Return(AnalysisResult("", DirPath, allIssues, issuesNil, "", ""), "nil")
    /\ UNCHANGED <<allIssues, issuesNil, fi, mode, walking, analysis, sql, source,
                   viaFile>>
    /\ UNCHANGED sqlvars

FileNext ==
    \/ AnalyzeFileCall
    \/ AnalyzeInputPath
    \/ AnalyzeInputInline
    \/ DirStatFails
    \/ DirNotDir
    \/ DirBegin
    \/ WalkEntry
    \/ AnalyzeText
    \/ FileReturn
    \/ WalkAppend
    \/ WalkEnd

FileSpec == FileInit /\ [][FileNext]_vars

\* ------------------------------------------------------------------------
\* Two analyses of the same text by the same analyzer: the checkers and
\* their buffers are the ones the first analysis left behind.
\* ------------------------------------------------------------------------
RepeatCheckerLists == FileCheckerLists \cup {cs \in CheckerLists : Len(cs) = 1}

RepeatInit ==
    /\ sql \in SqlTexts
    /\ checkers \in RepeatCheckerLists
    /\ cfg \in Catalogs
    /\ pc = "start"
    /\ pass = 1
    /\ parsed = <<>>
    /\ stmts = <<>>
    /\ transformed = <<>>
    /\ si = 0
    /\ todo = <<>>
    /\ vskip = FALSE
    /\ buf = [i \in 1..Len(checkers) |-> <<>>]
    /\ visits = <<>>
    /\ allIssues = <<>>
    /\ issuesNil = TRUE
    /\ result = NoResult
    /\ err = "nil"
    /\ first = NoResult
    /\ mode = "AnalyzeSQL"
    /\ fs = <<>>
    /\ fi = 0
    /\ source = Source
    /\ viaFile = FALSE
    /\ walking = FALSE
    /\ analysis = NoResult
    /\ NoGoroutines
    /\ NoLoading
    /\ NoFactoryCall
    /\ NoProcess
    /\ NoWalk

\* the caller analyses the same text again with the same analyzer
Repeat ==
    /\ pc = "done"
    /\ pass = 1
    /\ first' = result
    /\ pass' = 2
    /\ pc' = "start"
    /\ result' = NoResult
    /\ UNCHANGED <<sql, checkers, cfg, parsed, stmts, transformed, si, todo, vskip, buf,
                   visits, allIssues, issuesNil, err>>
    /\ UNCHANGED fsvars

RepeatNext ==
    \/ ParseError
    \/ NoSQL
    \/ CheckEmpty
    \/ CheckBegin
    \/ NextStmt
    \/ EnterNode
    \/ Collect
    \/ GenerateOk
    \/ GenerateFail
    \/ Repeat

RepeatSpec == RepeatInit /\ [][RepeatNext]_vars

\* ------------------------------------------------------------------------
\* A directory walked by one analyzer, every analysis step by step: the
\* checkers and their buffers pass from one file to the next.
\* ------------------------------------------------------------------------
ScriptEntries ==
    {File("f.sql", TRUE, t) : t \in FileContents}
    \cup {File("f.Log", TRUE, t) : t \in FileContents}
    \cup {File("f.sql", FALSE, ""), SubDir}

ScriptDirs == SeqsUpTo(ScriptEntries, MaxFiles)

ScriptCheckerLists ==
    {<<>>, <<"DataTypeChecker">>, <<"FunctionChecker">>,
     <<"DataTypeChecker", "FunctionChecker", "SyntaxChecker", "CharsetChecker">>}

walkvars == <<checkers, cfg, pass, parsed, stmts, transformed, si, todo, vskip, buf,
              visits, allIssues, issuesNil, first, mode, fs, viaFile, walking,
              analysis, mu, heap, issues, gor, category, rules, ri, categories, ci,
              created, argv, stage, exitCode, cause>>

DirInit ==
    /\ fs \in ScriptDirs
    /\ checkers \in ScriptCheckerLists
    /\ cfg \in Catalogs
    /\ mode = "AnalyzeDirectory"
    /\ pc = "dirwalk"
    /\ fi = 0
    /\ source = ""
    /\ viaFile = FALSE
    /\ walking = TRUE
    /\ analysis = NoResult
    /\ sql = ""
    /\ pass = 1
    /\ parsed = <<>>
    /\ stmts = <<>>
    /\ transformed = <<>>
    /\ si = 0
    /\ todo = <<>>
    /\ vskip = FALSE
    /\ buf = [i \in 1..Len(checkers) |-> <<>>]
    /\ visits = <<>>
    /\ allIssues = <<>>
    /\ issuesNil = TRUE
    /\ result = NoResult
    /\ err = "nil"
    /\ first = NoResult
    /\ dirIssues = <<>>
    /\ NoGoroutines
    /\ NoLoading
    /\ NoFactoryCall
    /\ NoProcess

\* the walk function on the next entry, up to its call of AnalyzeSQL: a
\* directory is passed over, a read error ends the walk
ScriptEntry ==
    /\ pc = "dirwalk"
    /\ fi < Len(fs)
    /\ fi' = fi + 1
    /\ IF fs[fi + 1].isDir
       THEN UNCHANGED <<sql, source, result, err, pc>>
       ELSE IF WalkRead(Path(fi + 1), fs[fi + 1]).err
       THEN /\ result' = AnalysisResult("", DirPath, <<>>, TRUE, "", "walk")
            /\ err' = "nil"
            /\ pc' = "returned"
            /\ UNCHANGED <<sql, source>>
       ELSE /\ sql' = WalkRead(Path(fi + 1), fs[fi + 1]).content
            /\ source' = Path(fi + 1)
            /\ result' = NoResult
            /\ pc' = "start"
            /\ UNCHANGED err
    /\ UNCHANGED dirIssues
    /\ UNCHANGED walkvars

\* the walk function after AnalyzeSQL returned: it appends to allIssues
ScriptAppend ==
    /\ pc = "done"
    /\ IF result.Error # ""
       THEN dirIssues' = Append(dirIssues, ErrorIssue(source, result.Error))
       ELSE dirIssues' = dirIssues \o result.Issues
    /\ pc' = "dirwalk"
    /\ UNCHANGED <<sql, source, fi, result, err>>
    /\ UNCHANGED walkvars

\* filepath.Walk returned nil
ScriptsEnd ==
    /\ pc = "dirwalk"
    /\ fi = Len(fs)
    /\ result' = AnalysisResult("", DirPath, dirIssues, dirIssues = <<>>, "", "")
    /\ err' = "nil"
    /\ pc' = "returned"
    /\ UNCHANGED <<sql, source, fi, dirIssues>>
    /\ UNCHANGED walkvars

DirNext ==
    \/ ScriptEntry
    \/ ParseError
    \/ NoSQL
    \/ CheckEmpty
    \/ CheckBegin
    \/ NextStmt
    \/ EnterNode
    \/ Collect
    \/ GenerateOk
    \/ GenerateFail
    \/ ScriptAppend
    \/ ScriptsEnd

DirSpec == DirInit /\ [][DirNext]_vars

\* ------------------------------------------------------------------------
\* generateSQL on its own: the statement lists it can be handed, a nil
\* statement among them.
\* ------------------------------------------------------------------------
RestoreStmts ==
    BatchStmts
    \cup { "UPDATE users SET name = 'test' WHERE id = 1",
           "INSERT INTO users (name) VALUES ('x')",
           "SELECT COUNT(*) FROM users u JOIN orders ON a = b GROUP BY b ORDER BY b DESC",
           "ALTER TABLE users ADD COLUMN email_verified BOOLEAN DEFAULT FALSE" }

ParsedStmts == {ParseSQL(t).stmts[1] : t \in RestoreStmts}

RestoreInputs == SeqsUpTo(ParsedStmts \cup {Nil}, MaxStmts + 1)

RestoreInit ==
    /\ transformed \in RestoreInputs
    /\ pc = "restore"
    /\ sql = ""
    /\ checkers = <<>>
    /\ cfg \in Catalogs
    /\ pass = 1
    /\ parsed = <<>>
    /\ stmts = <<>>
    /\ si = 0
    /\ todo = <<>>
    /\ vskip = FALSE
    /\ buf = <<>>
    /\ visits = <<>>
    /\ allIssues = <<>>
    /\ issuesNil = TRUE
    /\ result = NoResult
    /\ err = "nil"
    /\ first = NoResult
    /\ mode = "AnalyzeSQL"
    /\ fs = <<>>
    /\ fi = 0
    /\ source = Source
    /\ viaFile = FALSE
    /\ walking = FALSE
    /\ analysis = NoResult
    /\ NoGoroutines
    /\ NoLoading
    /\ NoFactoryCall
    /\ NoProcess
    /\ NoWalk

RestoreNext ==
    \/ GenerateOk
    \/ GenerateFail

RestoreSpec == RestoreInit /\ [][RestoreNext]_vars

\* ------------------------------------------------------------------------
\* One RuleChecker shared by goroutines that call AddIssue, AddIssues, Issues
\* and Reset on it.  RuleChecker.issues is a Go slice: a header [arr, len, cap] over a
\* backing array of the heap (arr = 0: the array of make([]Issue, 0), which
\* has no cell).  Each call is a sequence of steps: taking the lock, the
\* statements of the body, the deferred release.
\* ------------------------------------------------------------------------
NumGoroutines == 3

Goroutines == 1..NumGoroutines

\* the calls a goroutine makes on the checker, in order
Programs == {<<"AddIssue", "Issues">>, <<"Issues">>, <<"Reset", "AddIssue">>,
             <<"AddIssues">>}

\* the variables of the analyzer, which the goroutines do not touch
analyzervars == <<sql, checkers, cfg, pc, pass, parsed, stmts, transformed, si, todo,
                  vskip, buf, visits, allIssues, issuesNil, result, err, first,
                  mode, fs, fi, source, viaFile, walking, analysis,
          category, rules, ri,
          categories, ci, created,
          argv, stage, exitCode, cause,
          dirIssues>>

\* a lock that any number of writers and readers may hold together
CanLockUnguarded(m) == TRUE

\* sync.RWMutex: Lock waits for the writer and the readers to release,
\* RLock waits for the writer
CanLock(m) == m.w = 0 /\ m.r = 0

CanRLock(m) == m.w = 0

\* the issue goroutine g adds, and the zero value of model.Issue
IssueOf(g) == [Checker |-> "concurrent_test", Message |-> g]

ZeroIssue == [Checker |-> "", Message |-> 0]

\* the list of issues goroutine g hands to AddIssues
BatchOf(g) == <<IssueOf(NumGoroutines + g), IssueOf(NumGoroutines + NumGoroutines + g)>>

\* the elements of slice s over heap h
View(h, s) == [i \in 1..s.len |-> h[s.arr][i]]

\* the capacities append may give the array it allocates when the slice is
\* full: twice the old one (1 for the empty array), or the next one up when
\* the allocator rounds the size up
GrowCaps(oldcap) ==
    {(IF oldcap = 0 THEN 1 ELSE oldcap + oldcap),
     (IF oldcap = 0 THEN 1 ELSE oldcap + oldcap) + 1}

\* append(s, x): [heap, slice]; newcap is the capacity of a new array
append(h, s, x, newcap) ==
    IF s.len < s.cap
    THEN [heap |-> [h EXCEPT ![s.arr][s.len + 1] = x],
          slice |-> [s EXCEPT !.len = s.len + 1]]
    ELSE [heap |-> Append(h, [i \in 1..newcap |->
                                 IF i <= s.len THEN h[s.arr][i]
                                 ELSE IF i = s.len + 1 THEN x ELSE ZeroIssue]),
          slice |-> [arr |-> Len(h) + 1, len |-> s.len + 1, cap |-> newcap]]

\* the capacities append may give the array it allocates for needed
\* elements: the number needed when twice the old capacity does not hold
\* them, twice the old capacity otherwise, or the next one up
GrowCapsFor(oldcap, needed) ==
    {(IF needed > oldcap + oldcap THEN needed ELSE oldcap + oldcap),
     (IF needed > oldcap + oldcap THEN needed ELSE oldcap + oldcap) + 1}

\* append(s, xs...): [heap, slice]; newcap is the capacity of a new array
appendAll(h, s, xs, newcap) ==
    IF s.len + Len(xs) <= s.cap
    THEN [heap |-> [h EXCEPT ![s.arr] =
                       [i \in 1..s.cap |->
                           IF i > s.len /\ i <= s.len + Len(xs) THEN xs[i - s.len]
                           ELSE h[s.arr][i]]],
          slice |-> [s EXCEPT !.len = s.len + Len(xs)]]
    ELSE [heap |-> Append(h, [i \in 1..newcap |->
                                 IF i <= s.len THEN h[s.arr][i]
                                 ELSE IF i <= s.len + Len(xs) THEN xs[i - s.len]
                                 ELSE ZeroIssue]),
          slice |-> [arr |-> Len(h) + 1, len |-> s.len + Len(xs), cap |-> newcap]]

\* goroutine g: its program, the index of the call it is in, its position in
\* that call, the slice append returned to it, and the slice its last call of
\* Issues returned with (history) the elements that slice had on return
Goroutine(prog) ==
    [prog |-> prog, ip |-> 1, pc |-> "call", local |-> [arr |-> 0, len |-> 0, cap |-> 0],
     has |-> FALSE, snap |-> [arr |-> 0, len |-> 0, cap |-> 0], snapAt |-> <<>>]

Op(g) == gor[g].prog[gor[g].ip]

\* the call of goroutine g returns
Returns(g, rec) ==
    [gor EXCEPT ![g] = [rec EXCEPT !.ip = IF rec.ip < Len(rec.prog) THEN rec.ip + 1
                                          ELSE rec.ip,
                                   !.pc = IF rec.ip < Len(rec.prog) THEN "call"
                                          ELSE "done"]]

BufferInit ==
    /\ sql = ""
    /\ checkers = <<>>
    /\ cfg = DefaultCatalog
    /\ pc = "done"
    /\ pass = 1
    /\ parsed = <<>>
    /\ stmts = <<>>
    /\ transformed = <<>>
    /\ si = 0
    /\ todo = <<>>
    /\ vskip = FALSE
    /\ buf = <<>>
    /\ visits = <<>>
    /\ allIssues = <<>>
    /\ issuesNil = TRUE
    /\ result = NoResult
    /\ err = "nil"
    /\ first = NoResult
    /\ mode = "idle"
    /\ fs = <<>>
    /\ fi = 0
    /\ source = ""
    /\ viaFile = FALSE
    /\ walking = FALSE
    /\ analysis = NoResult
    /\ mu = [w |-> 0, r |-> 0]
    /\ heap = <<>>
    /\ issues = [arr |-> 0, len |-> 0, cap |-> 0]
    /\ gor \in [Goroutines -> {Goroutine(p) : p \in Programs}]
    /\ NoLoading
    /\ NoFactoryCall
    /\ NoProcess
    /\ NoWalk

\* r.mu.Lock() of AddIssue, AddIssues and Reset
Lock ==
    \E g \in DOMAIN gor :
        /\ gor[g].pc = "call"
        /\ Op(g) \in {"AddIssue", "AddIssues", "Reset"}
        /\ CanLock(mu)
        /\ mu' = [mu EXCEPT !.w = mu.w + 1]
        /\ gor' = [gor EXCEPT ![g].pc = "locked"]
        /\ UNCHANGED <<heap, issues>>
        /\ UNCHANGED analyzervars

\* AddIssue: append(r.issues, issue)
AppendIssue ==
    \E g \in DOMAIN gor :
        /\ gor[g].pc = "locked"
        /\ Op(g) = "AddIssue"
        /\ \E newcap \in GrowCaps(issues.cap) :
              /\ heap' = append(heap, issues, IssueOf(g), newcap).heap
              /\ gor' = [gor EXCEPT
                            ![g].local = append(heap, issues, IssueOf(g), newcap).slice,
                            ![g].pc = "appended"]
        /\ UNCHANGED <<mu, issues>>
        /\ UNCHANGED analyzervars

\* AddIssues: append(r.issues, issues...)
AppendIssues ==
    \E g \in DOMAIN gor :
        /\ gor[g].pc = "locked"
        /\ Op(g) = "AddIssues"
        /\ \E newcap \in GrowCapsFor(issues.cap, issues.len + Len(BatchOf(g))) :
              /\ heap' = appendAll(heap, issues, BatchOf(g), newcap).heap
              /\ gor' = [gor EXCEPT
                            ![g].local = appendAll(heap, issues, BatchOf(g), newcap).slice,
                            ![g].pc = "appended"]
        /\ UNCHANGED <<mu, issues>>
        /\ UNCHANGED analyzervars

\* AddIssue, AddIssues: r.issues = the slice append returned
StoreIssues ==
    \E g \in DOMAIN gor :
        /\ gor[g].pc = "appended"
        /\ issues' = gor[g].local
        /\ gor' = [gor EXCEPT ![g].pc = "stored"]
        /\ UNCHANGED <<mu, heap>>
        /\ UNCHANGED analyzervars

\* Reset: r.issues = r.issues[:0]
Truncate ==
    \E g \in DOMAIN gor :
        /\ gor[g].pc = "locked"
        /\ Op(g) = "Reset"
        /\ issues' = [issues EXCEPT !.len = 0]
        /\ gor' = [gor EXCEPT ![g].pc = "stored"]
        /\ UNCHANGED <<mu, heap>>
        /\ UNCHANGED analyzervars

\* the deferred r.mu.Unlock(); the call returns
Unlock ==
    \E g \in DOMAIN gor :
        /\ gor[g].pc = "stored"
        /\ mu' = [mu EXCEPT !.w = mu.w - 1]
        /\ gor' = Returns(g, gor[g])
        /\ UNCHANGED <<heap, issues>>
        /\ UNCHANGED analyzervars

\* r.mu.RLock() of Issues
RLock ==
    \E g \in DOMAIN gor :
        /\ gor[g].pc = "call"
        /\ Op(g) = "Issues"
        /\ CanRLock(mu)
        /\ mu' = [mu EXCEPT !.r = mu.r + 1]
        /\ gor' = [gor EXCEPT ![g].pc = "rlocked"]
        /\ UNCHANGED <<heap, issues>>
        /\ UNCHANGED analyzervars

\* Issues: return r.issues (the header is copied, the array is shared)
ReadIssues ==
    \E g \in DOMAIN gor :
        /\ gor[g].pc = "rlocked"
        /\ gor' = [gor EXCEPT ![g].snap = issues,
                              ![g].snapAt = View(heap, issues),
                              ![g].has = TRUE,
                              ![g].pc = "read"]
        /\ UNCHANGED <<mu, heap, issues>>
        /\ UNCHANGED analyzervars

\* the deferred r.mu.RUnlock(); the call returns
RUnlock ==
    \E g \in DOMAIN gor :
        /\ gor[g].pc = "read"
        /\ mu' = [mu EXCEPT !.r = mu.r - 1]
        /\ gor' = Returns(g, gor[g])
        /\ UNCHANGED <<heap, issues>>
        /\ UNCHANGED analyzervars

BufferNext ==
    \/ Lock
    \/ AppendIssue
    \/ AppendIssues
    \/ StoreIssues
    \/ Truncate
    \/ Unlock
    \/ RLock
    \/ ReadIssues
    \/ RUnlock

BufferSpec == BufferInit /\ [][BufferNext]_vars

\* ------------------------------------------------------------------------
\* RuleChecker.LoadRulesFromConfig as the loop it is: one step per rule of
\* the catalog, in catalog order.
\* ------------------------------------------------------------------------
MaxRules == 3

\* rules that differ in the case of the category and of the pattern
LoadRuleSet ==
    {Rule(c, p, "replace_type", t) :
        c \in {"datatype", "DataType", "function"},
        p \in {"tinyint", "TINYINT"},
        t \in {"SMALLINT", "BIGINT"}}

LoadCatalogs == SeqsUpTo(LoadRuleSet, MaxRules)

\* the categories the checkers are constructed with, and the one of the test
LoadCategories == {"datatype", "function", "nonexistent"}

\* what loading the rules leaves alone
checkervars == <<sql, checkers, pc, pass, parsed, stmts, transformed, si, todo,
                 vskip, buf, visits, allIssues, issuesNil, result, err, first,
                 mode, fs, fi, source, viaFile, walking, analysis,
                 mu, heap, issues, gor,
          categories, ci, created,
          argv, stage, exitCode, cause,
          dirIssues>>

\* a map assignment that keeps the rule already stored under the key
StoredFirstWins(m, key, rule) ==
    [k \in DOMAIN m \cup {key} |-> IF k \in DOMAIN m THEN m[k] ELSE rule]

\* r.rules[patternKey] = rule
Stored(m, key, rule) ==
    [k \in DOMAIN m \cup {key} |-> IF k = key THEN rule ELSE m[k]]

LoadInit ==
    /\ cfg \in LoadCatalogs
    /\ category \in LoadCategories
    /\ rules = <<>>
    /\ ri = 0
    /\ sql = ""
    /\ checkers = <<>>
    /\ pc = "done"
    /\ pass = 1
    /\ parsed = <<>>
    /\ stmts = <<>>
    /\ transformed = <<>>
    /\ si = 0
    /\ todo = <<>>
    /\ vskip = FALSE
    /\ buf = <<>>
    /\ visits = <<>>
    /\ allIssues = <<>>
    /\ issuesNil = TRUE
    /\ result = NoResult
    /\ err = "nil"
    /\ first = NoResult
    /\ mode = "idle"
    /\ fs = <<>>
    /\ fi = 0
    /\ source = ""
    /\ viaFile = FALSE
    /\ walking = FALSE
    /\ analysis = NoResult
    /\ NoGoroutines
    /\ NoFactoryCall
    /\ NoProcess
    /\ NoWalk

\* r.rules = make(map[string]config.Rule)
LoadBegin ==
    /\ ri = 0
    /\ category # ""
    /\ rules' = <<>>
    /\ ri' = 1
    /\ UNCHANGED <<cfg, category>>
    /\ UNCHANGED checkervars

\* a rule of another category is passed over
LoadSkip ==
    /\ ri \in 1..Len(cfg)
    /\ ~EqualFold(cfg[ri].Category, category)
    /\ ri' = ri + 1
    /\ UNCHANGED <<cfg, category, rules>>
    /\ UNCHANGED checkervars

\* a rule of the checker's category whose key is new
LoadInsert ==
    /\ ri \in 1..Len(cfg)
    /\ EqualFold(cfg[ri].Category, category)
    /\ ~HasRule(rules, ToUpper(cfg[ri].Pattern))
    /\ rules' = Stored(rules, ToUpper(cfg[ri].Pattern), cfg[ri])
    /\ ri' = ri + 1
    /\ UNCHANGED <<cfg, category>>
    /\ UNCHANGED checkervars

\* a rule of the checker's category whose key is taken: a warning is logged
\* and the rule replaces the one stored
LoadOverwrite ==
    /\ ri \in 1..Len(cfg)
    /\ EqualFold(cfg[ri].Category, category)
    /\ HasRule(rules, ToUpper(cfg[ri].Pattern))
    /\ rules' = Stored(rules, ToUpper(cfg[ri].Pattern), cfg[ri])
    /\ ri' = ri + 1
    /\ UNCHANGED <<cfg, category>>
    /\ UNCHANGED checkervars

LoadNext ==
    \/ LoadBegin
    \/ LoadSkip
    \/ LoadInsert
    \/ LoadOverwrite

LoadSpec == LoadInit /\ [][LoadNext]_vars

\* ------------------------------------------------------------------------
\* AnalyzerFactory.CreateCheckers(categories...): the variable checkers is
\* the slice the loop appends to.
\* ------------------------------------------------------------------------
MaxCategories == 4

CategoryNames ==
    {"datatype", "function", "syntax", "charset", "DataType", "SYNTAX", "Unsupported"}

CategoryLists == SeqsUpTo(CategoryNames, MaxCategories)

\* what CreateCheckers leaves alone
factoryvars == <<sql, cfg, pc, pass, parsed, stmts, transformed, si, todo,
                 vskip, buf, visits, allIssues, issuesNil, result, err, first,
                 mode, fs, fi, source, viaFile, walking, analysis,
                 mu, heap, issues, gor, category, rules, ri,
          argv, stage, exitCode, cause,
          dirIssues>>

\* a switch on the category as it is written
NewCheckerCaseSensitive(name) ==
    CASE name = "datatype" -> "DataTypeChecker"
      [] name = "function" -> "FunctionChecker"
      [] name = "syntax" -> "SyntaxChecker"
      [] name = "charset" -> "CharsetChecker"
      [] OTHER -> ""

\* the switch on strings.ToLower(category): the checker constructed, ""
\* in the default case
NewChecker(name) ==
    CASE ToLower(name) = "datatype" -> "DataTypeChecker"
      [] ToLower(name) = "function" -> "FunctionChecker"
      [] ToLower(name) = "syntax" -> "SyntaxChecker"
      [] ToLower(name) = "charset" -> "CharsetChecker"
      [] OTHER -> ""

FactoryInit ==
    /\ categories \in CategoryLists
    /\ ci = 0
    /\ created = NoReturn
    /\ checkers = <<>>
    /\ cfg = DefaultCatalog
    /\ sql = ""
    /\ pc = "done"
    /\ pass = 1
    /\ parsed = <<>>
    /\ stmts = <<>>
    /\ transformed = <<>>
    /\ si = 0
    /\ todo = <<>>
    /\ vskip = FALSE
    /\ buf = <<>>
    /\ visits = <<>>
    /\ allIssues = <<>>
    /\ issuesNil = TRUE
    /\ result = NoResult
    /\ err = "nil"
    /\ first = NoResult
    /\ mode = "idle"
    /\ fs = <<>>
    /\ fi = 0
    /\ source = ""
    /\ viaFile = FALSE
    /\ walking = FALSE
    /\ analysis = NoResult
    /\ NoGoroutines
    /\ NoLoading
    /\ NoProcess
    /\ NoWalk

\* no category: an empty, non-nil list and no error
CreateNone ==
    /\ ci = 0
    /\ created = NoReturn
    /\ categories = <<>>
    /\ created' = [checkers |-> <<>>, isNil |-> FALSE, err |-> "nil"]
    /\ UNCHANGED <<categories, ci, checkers>>
    /\ UNCHANGED factoryvars

\* the loop is entered
CreateBegin ==
    /\ ci = 0
    /\ categories # <<>>
    /\ ci' = 1
    /\ UNCHANGED <<categories, created, checkers>>
    /\ UNCHANGED factoryvars

\* a known category: its checker is constructed and appended
CreateOne ==
    /\ ci \in 1..Len(categories)
    /\ created = NoReturn
    /\ NewChecker(categories[ci]) # ""
    /\ checkers' = Append(checkers, NewChecker(categories[ci]))
    /\ ci' = ci + 1
    /\ UNCHANGED <<categories, created>>
    /\ UNCHANGED factoryvars

\* the default case: return nil and the error
CreateUnknown ==
    /\ ci \in 1..Len(categories)
    /\ created = NoReturn
    /\ NewChecker(categories[ci]) = ""
    /\ created' = [checkers |-> <<>>, isNil |-> TRUE, err |-> "unsupported category"]
    /\ UNCHANGED <<categories, ci, checkers>>
    /\ UNCHANGED factoryvars

\* the loop is over: return checkers, nil
CreateDone ==
    /\ ci = Len(categories) + 1
    /\ created = NoReturn
    /\ created' = [checkers |-> checkers, isNil |-> FALSE, err |-> "nil"]
    /\ UNCHANGED <<categories, ci, checkers>>
    /\ UNCHANGED factoryvars

FactoryNext ==
    \/ CreateNone
    \/ CreateBegin
    \/ CreateOne
    \/ CreateUnknown
    \/ CreateDone

FactorySpec == FactoryInit /\ [][FactoryNext]_vars

\* ------------------------------------------------------------------------
\* The command line program: main, parseFlags and run.  argv holds the
\* command line and the outcome of each thing the process asks of its
\* environment.
\* ------------------------------------------------------------------------
exitSuccess == 0

exitInvalidArgs == 1

exitConfigError == 2

exitAnalysisErr == 3

MaxArgs == 2

CommandLines ==
    [flags : {"ok", "undefined", "novalue", "help"},
                                   \* the flags as flag.Parse finds them: well
                                   \* formed, one that is not defined, one
                                   \* without its value, -h or -help
     pathFlag : BOOLEAN,           \* --path is given
     nargs : 0..MaxArgs,           \* the number of positional arguments
     pathExists : BOOLEAN,         \* the path to analyse exists
     configFlag : BOOLEAN,         \* --config is given
     configFound : BOOLEAN,        \* the file of --config, or a default one, exists
     reportDirOk : BOOLEAN,        \* the report directory can be made
     configAtRun : {"ok", "missing", "unreadable", "badyaml"},
     analysisOk : BOOLEAN,         \* AnalyzeInput returns no error
     reportOk : BOOLEAN]           \* GenerateReports returns no error

\* what the command line program leaves alone
clivars == <<sql, checkers, cfg, pc, pass, parsed, stmts, transformed, si, todo,
             vskip, buf, visits, allIssues, issuesNil, result, err, first,
             mode, fs, fi, source, viaFile, walking, analysis,
             mu, heap, issues, gor, category, rules, ri, categories, ci, created,
          dirIssues>>

CliInit ==
    /\ argv \in CommandLines
    /\ stage = "parse"
    /\ exitCode = 0
    /\ cause = "none"
    /\ sql = ""
    /\ checkers = <<>>
    /\ cfg = DefaultCatalog
    /\ pc = "done"
    /\ pass = 1
    /\ parsed = <<>>
    /\ stmts = <<>>
    /\ transformed = <<>>
    /\ si = 0
    /\ todo = <<>>
    /\ vskip = FALSE
    /\ buf = <<>>
    /\ visits = <<>>
    /\ allIssues = <<>>
    /\ issuesNil = TRUE
    /\ result = NoResult
    /\ err = "nil"
    /\ first = NoResult
    /\ mode = "idle"
    /\ fs = <<>>
    /\ fi = 0
    /\ source = ""
    /\ viaFile = FALSE
    /\ walking = FALSE
    /\ analysis = NoResult
    /\ NoGoroutines
    /\ NoLoading
    /\ NoFactoryCall
    /\ NoWalk

\* os.Exit(code), or the return of main for exitSuccess
Exit(code, why) ==
    /\ stage' = "exited"
    /\ exitCode' = code
    /\ cause' = why

Goto(next) ==
    /\ stage' = next
    /\ UNCHANGED <<exitCode, cause>>

\* parseFlags: flag.Parse() on the command line; the flag set is
\* flag.CommandLine, which exits with 2 on a malformed command line and with
\* 0 after it printed the usage for -h or -help
FlagParse ==
    /\ stage = "parse"
    /\ IF argv.flags \in {"undefined", "novalue"} THEN Exit(2, "argument")
       ELSE IF argv.flags = "help" THEN Exit(0, "help")
       ELSE Goto("flags")
    /\ UNCHANGED argv
    /\ UNCHANGED clivars

\* parseFlags: the path to analyse, from --path or the one positional argument
ParsePath ==
    /\ stage = "flags"
    /\ IF ~argv.pathFlag /\ argv.nargs # 1 THEN Exit(1, "argument")
       ELSE IF ~argv.pathExists THEN Exit(1, "argument")
       ELSE Goto("config")
    /\ UNCHANGED argv
    /\ UNCHANGED clivars

\* parseFlags: the configuration file, from --config or the default lookup
ParseConfig ==
    /\ stage = "config"
    /\ IF ~argv.configFound THEN Exit(1, "config") ELSE Goto("report")
    /\ UNCHANGED argv
    /\ UNCHANGED clivars

\* parseFlags: the report directory is made
ParseReport ==
    /\ stage = "report"
    /\ IF ~argv.reportDirOk THEN Exit(1, "report") ELSE Goto("run")
    /\ UNCHANGED argv
    /\ UNCHANGED clivars

\* run: config.ResolveFilePath(absConfigPath); main exits on run's error
RunResolve ==
    /\ stage = "run"
    /\ IF argv.configAtRun = "missing" THEN Exit(exitAnalysisErr, "config")
       ELSE Goto("factory")
    /\ UNCHANGED argv
    /\ UNCHANGED clivars

\* run: NewAnalyzerFactory loads the catalog; CreateCheckers() and
\* NewSQLParser() follow and do not fail
RunFactory ==
    /\ stage = "factory"
    /\ IF argv.configAtRun \in {"unreadable", "badyaml"}
       THEN Exit(exitAnalysisErr, "config")
       ELSE Goto("analyze")
    /\ UNCHANGED argv
    /\ UNCHANGED clivars

\* run: analyzer.AnalyzeInput
RunAnalyze ==
    /\ stage = "analyze"
    /\ IF ~argv.analysisOk THEN Exit(exitAnalysisErr, "analysis") ELSE Goto("reports")
    /\ UNCHANGED argv
    /\ UNCHANGED clivars

\* run: report.GenerateReports; run returns nil and main returns
RunReport ==
    /\ stage = "reports"
    /\ IF ~argv.reportOk THEN Exit(exitAnalysisErr, "report")
       ELSE Exit(exitSuccess, "none")
    /\ UNCHANGED argv
    /\ UNCHANGED clivars

CliNext ==
    \/ FlagParse
    \/ ParsePath
    \/ ParseConfig
    \/ ParseReport
    \/ RunResolve
    \/ RunFactory
    \/ RunAnalyze
    \/ RunReport

CliSpec == CliInit /\ [][CliNext]_vars

\* ------------------------------------------------------------------------
\* Properties.  "The walk is over" is pc = "restore" after a Check that had
\* checkers; visits then holds every Enter call of the analysis.
\* ------------------------------------------------------------------------
Range(f) == {f[i] : i \in DOMAIN f}

WalkOver == pc = "restore" /\ Len(checkers) > 0

\* how many Enter calls on node p of statement s handed the node to checker i
OfferCount(s, p, i) ==
    Cardinality({k \in DOMAIN visits :
        /\ visits[k].si = s
        /\ visits[k].path = p
        /\ i \in Range(visits[k].offered)})

\* p lies strictly beneath a node of statement s at which a checker asked to skip
SkippedAbove(s, p) ==
    \E k \in DOMAIN visits :
        /\ visits[k].si = s
        /\ visits[k].skip
        /\ ~visits[k].bypass
        /\ visits[k].path # p
        /\ IsPrefix(visits[k].path, p)

\* position of path p in the pre-order of tree (0 if absent)
PreIndex(tree, p) ==
    LET po == PreOrder(tree, <<>>)
        hits == {i \in DOMAIN po : po[i] = p}
    IN IF hits = {} THEN 0 ELSE CHOOSE i \in hits : TRUE

\* C1 (as claimed): once the walk is over, every node of every non-null
\* statement that does not lie beneath a node where a checker requested
\* skip_children has been offered to every registered checker exactly once,
\* and the Enter calls happened in depth-first pre-order.
C1_OfferedOnceOutsideSkippedSubtrees ==
    WalkOver =>
        /\ \A s \in DOMAIN stmts : stmts[s] # Nil =>
              \A p \in Range(PreOrder(stmts[s], <<>>)) :
                 ~SkippedAbove(s, p) =>
                    \A i \in DOMAIN checkers : OfferCount(s, p, i) = 1
        /\ \A k, l \in DOMAIN visits : k < l =>
              \/ visits[k].si < visits[l].si
              \/ /\ visits[k].si = visits[l].si
                 /\ PreIndex(stmts[visits[k].si], visits[k].path)
                    < PreIndex(stmts[visits[l].si], visits[l].path)

\* the issue of checker named c that reports on node p of statement s exists
IssueAt(s, p, c) ==
    \E k \in DOMAIN visits : \E j \in DOMAIN visits[k].emits :
        /\ visits[k].si = s
        /\ visits[k].path \o visits[k].emits[j].sub = p
        /\ visits[k].emits[j].issue.Checker = c

DataTypeRules == LoadRulesFromConfig("datatype", cfg)

\* C2 (as claimed, for analyses whose only checker is DataTypeChecker): once
\* the walk is over, every column definition of the parsed input whose type
\* name has a datatype rule has a DataTypeChecker issue and carries the
\* rule's rewrite, in CREATE TABLE and in ALTER TABLE alike, however many
\* such columns the statement has.
C2_EveryMatchingColumnReported ==
    (WalkOver /\ pass = 1 /\ checkers = <<"DataTypeChecker">>) =>
        \A s \in DOMAIN parsed :
           \A p \in Range(PreOrder(parsed[s], <<>>)) :
              LET n == GetNode(parsed[s], p) IN
              (/\ n.kind = "ColumnDef"
               /\ HasRule(DataTypeRules, extractTypeNameFromFieldType(n.Tp))) =>
                 /\ IssueAt(s, p, "DataTypeChecker")
                 /\ GetNode(stmts[s], p)
                    = ApplyTransformation(
                          n, DataTypeRules[extractTypeNameFromFieldType(n.Tp)]).node

\* the issues the spec allows without a mutation
DeclinesToMutate(issue) ==
    \/ issue.Action = "replace_clause"
    \/ issue.Pattern \in {"LOCK TABLES", "UNLOCK TABLES"}

\* C3 (as claimed): the analysis of the transformed SQL of an analysis, with
\* the same checkers and rules, reports no issue other than those of rules
\* that decline to mutate.
C3_ReanalysisFindsNothing ==
    (pc = "done" /\ pass = 2) =>
        \A i \in DOMAIN result.Issues : DeclinesToMutate(result.Issues[i])

\* C4 (as claimed): every issue emitted so far either belongs to a rule that
\* declines to mutate, or the Inspect call that emitted it changed the node
\* the issue reports on.
C4_IssueMeansMutation ==
    \A k \in DOMAIN visits : \A j \in DOMAIN visits[k].emits :
        \/ DeclinesToMutate(visits[k].emits[j].issue)
        \/ visits[k].emits[j].changed

\* the issues checker c emits on the parsed input when registered alone
SoloIssues(c) == CheckRun(parsed, <<c>>, cfg).buf[1]

\* C5 (as claimed, for the walks in which no checker asked to skip
\* anything, so that every checker was offered every node): once the walk is
\* over, the issues in each checker's buffer are the ones it emits on the
\* same statements when it is the only registered checker.
C5_IssuesIndependentOfOtherCheckers ==
    (WalkOver /\ pass = 1 /\ \A k \in DOMAIN visits : ~visits[k].skip) =>
        \A i \in DOMAIN checkers : buf[i] = SoloIssues(checkers[i])

\* all issues in the order they were emitted: Enter call by Enter call, and
\* within one call checker by checker
EmissionOrder(vs) ==
    Flatten([k \in 1..Len(vs) |->
        [j \in 1..Len(vs[k].emits) |-> vs[k].emits[j].issue]])

\* C6 (as claimed): the issue list of the analysis is in emission order:
\* node-visit order first, checker registration order on the same node.
C6_IssuesInEmissionOrder ==
    (pc = "done" /\ result.Error = "" /\ Len(checkers) > 0) =>
        result.Issues = EmissionOrder(visits)

\* C6 (amended): the issue list of a successful analysis is the issues of the
\* first registered checker, then those of the second, and so on; the issues
\* of one checker are in the order it emitted them.
C6_IssuesGroupedByChecker ==
    (pc = "done" /\ result.Error = "" /\ Len(checkers) > 0) =>
        result.Issues = Flatten([i \in 1..Len(checkers) |-> EmittedBy(visits, i)])

\* C6 witness: an analysis whose second checker emitted before its first
\* one did, so that the issue list is not in emission order.
C6_Witness ==
    /\ pc = "done"
    /\ result.Error = ""
    /\ Len(checkers) = 2
    /\ \E k, l \in DOMAIN visits :
          /\ k < l
          /\ \E e \in Range(visits[k].emits) : e.chk = 2
          /\ \E e \in Range(visits[l].emits) : e.chk = 1
    /\ result.Issues # EmissionOrder(visits)

\* the checkers other than those at the indices idx, in order
Without(cs, idx) ==
    LET keep == {i \in DOMAIN cs : i \notin idx}
        F[i \in 0..Len(cs)] ==
            IF i = 0 THEN <<>>
            ELSE IF i \in keep THEN Append(F[i - 1], cs[i]) ELSE F[i - 1]
    IN F[Len(cs)]

IssuesOf(emits) == [j \in 1..Len(emits) |-> emits[j].issue]

\* C7: an Enter call in which checkers panicked hands the node to every
\* registered checker all the same, and leaves the node, the skip flag, the
\* issues and the rest of the walk exactly as the same call does without the
\* checkers that panicked.
C7_PanicIsNoChangeNoSkip ==
    [][(pc = "walk" /\ todo # <<>> /\ ~vskip) =>
          LET p == Head(todo)
              v == visits'[Len(visits')]
              calm == Without(checkers, Range(v.panics))
              q == Enter(GetNode(stmts[si], p), FALSE, calm, cfg)
              ch == Children(q.node)
          IN /\ v.offered = [i \in 1..Len(checkers) |-> i]
             /\ GetNode(stmts'[si], p) = q.node
             /\ vskip' = q.skip
             /\ IssuesOf(v.emits) = IssuesOf(q.emits)
             /\ todo' = (IF q.skip THEN <<>>
                         ELSE [i \in 1..Len(ch) |-> Append(p, ch[i])]) \o Tail(todo)
      ]_vars

\* C7 witness: a checker panicked on a node, a checker registered after it
\* emitted an issue on that node, and the walk went on to another node.
C7_Witness ==
    \E k \in DOMAIN visits :
        /\ k < Len(visits)
        /\ \E i \in Range(visits[k].panics) :
              \E e \in Range(visits[k].emits) : e.chk > i

\* C8 (as claimed): with no checker registered, the analysis of a text that
\* parses to at least one statement succeeds with no issue and with the
\* restored parse of the input, which is not empty, as its transformed SQL.
C8_EmptyCheckerListRestores ==
    (pc = "done" /\ pass = 1 /\ Len(checkers) = 0
     /\ ~ParseSQL(sql).err /\ ParseSQL(sql).stmts # <<>>) =>
        /\ result.Error = ""
        /\ result.Issues = <<>>
        /\ result.TransformedSQL = generateSQL(ParseSQL(sql).stmts, 0).sql
        /\ result.TransformedSQL # <<>>

\* C9 (as claimed): when the restore fails, the analysis returns a transform
\* error and the result still carries the issues the checkers collected.
C9_RestoreFailureKeepsIssues ==
    (pc = "done" /\ result.Error = "transform") =>
        /\ err = "transform"
        /\ result.Issues = allIssues

\* C10 (as claimed): a text the parser rejects ends with a non-nil error of
\* type parse, a text with no statement with one of type no_sql; the result
\* keeps sql and source and has neither issues nor transformed SQL.
C10_TypedErrorReturned ==
    (pc = "done" /\ (ParseSQL(sql).err \/ ParseSQL(sql).stmts = <<>>)) =>
        /\ err = (IF ParseSQL(sql).err THEN "parse" ELSE "no_sql")
        /\ result.SQL = sql
        /\ result.Source = source
        /\ result.Issues = <<>>
        /\ result.TransformedSQL = ""

\* ------------------------------------------------------------------------
\* Properties of the file entry points (FileSpec).  A directory analysis is
\* over when pc = "done" and walking.
\* ------------------------------------------------------------------------
DirectoryDone == pc = "done" /\ walking

Accepted(i) == fs[i].isDir \/ ToLower(Ext(Path(i))) \in {".sql", ".log"}

\* the entries of the directory that cannot be read
Unreadable == {i \in 1..Len(fs) : ~fs[i].isDir /\ ~fs[i].readable}

ErrorIssueFor(found, path) ==
    \E k \in 1..Len(found) : found[k].Checker = "Error" /\ found[k].File = path

\* C11: when a directory of .sql and .log files has been analysed, the
\* analysis did not fail, every entry was visited, and every file that could
\* not be read is reported by an issue of checker "Error" with its path.
C11_FileFailureBecomesErrorIssue ==
    (DirectoryDone /\ \A i \in 1..Len(fs) : Accepted(i))
        => /\ result.Error = ""
           /\ err = "nil"
           /\ fi = Len(fs)
           /\ \A i \in Unreadable : ErrorIssueFor(result.Issues, Path(i))

AllReadable == \A i \in 1..Len(fs) : fs[i].readable

\* C12: the directory walk hands to AnalyzeSQL only the content of .sql and
\* .log files, and a directory whose files can all be read is analysed
\* without an error whatever the extensions of its files are.
C12_OtherExtensionsSkipped ==
    /\ (pc = "analyze" /\ walking) => ToLower(Ext(Path(fi))) \in {".sql", ".log"}
    /\ (DirectoryDone /\ AllReadable) => (result.Error = "" /\ fi = Len(fs))

\* AnalyzeFile has returned the analysis of a file it could read
FileAnalysed == pc = "done" /\ mode = "AnalyzeFile" /\ viaFile

\* C13: AnalyzeFile on a .sql file whose content parses to no statement
\* returns an empty issue list, no error message and no error.
C13_EmptySqlFileIsNoError ==
    (FileAnalysed /\ ~ParseSQL(sql).err /\ ParseSQL(sql).stmts = <<>>)
        => /\ result.Error = ""
           /\ result.Issues = <<>>
           /\ err = "nil"

\* C14: the result an entry point returns without an error and without an
\* error message holds an issue list that is not nil.
C14_IssuesNeverNil ==
    (pc = "done" /\ err = "nil" /\ result.Error = "") => ~result.IssuesNil

\* ------------------------------------------------------------------------
\* Properties of generateSQL (RestoreSpec)
\* ------------------------------------------------------------------------
Restored == pc = "done" /\ result.Error = ""

\* the statements of the list that are not nil, in their order
Live(ss) == SelectSeq(ss, LAMBDA st : st # Nil)

RECURSIVE Cut(_, _)
\* the pieces of text between the occurrences of sep
Cut(text, sep) ==
    IF IndexOf(text, sep) = 0 THEN <<text>>
    ELSE <<SubSeq(text, 1, IndexOf(text, sep) - 1)>>
         \o Cut(SubSeq(text, IndexOf(text, sep) + Len(sep), Len(text)), sep)

\* C15: the restored text, cut at its separators ";\n", is the list of the
\* restored texts of the statements that are not nil, in their order; the
\* text neither starts nor ends with a separator, and it is empty when no
\* statement is left.
C15_RestoredTextsJoined ==
    Restored =>
        IF Live(transformed) = <<>> THEN result.TransformedSQL = ""
        ELSE /\ Cut(result.TransformedSQL, ";\n")
                  = [i \in 1..Len(Live(transformed)) |-> Restore(Live(transformed)[i])]
             /\ ~HasPrefix(result.TransformedSQL, ";")
             /\ ~HasSuffix(result.TransformedSQL, ";")
             /\ ~HasSuffix(result.TransformedSQL, "\n")

\* two statements around a nil statement have been restored
C15_Witness ==
    /\ Restored
    /\ Len(transformed) = 3
    /\ transformed[2] = Nil
    /\ Len(Live(transformed)) = 2
    /\ Len(Cut(result.TransformedSQL, ";\n")) = 2

\* ------------------------------------------------------------------------
\* Properties of the analysis of one SQL text (Spec), continued
\* ------------------------------------------------------------------------
\* a charset introducer in front of a string literal, in lower case
IntroducerPrefixes == {"_utf8mb4'", "_utf8'", "_latin1'", "_binary'"}

\* C16: no transformed SQL of a finished analysis contains a charset
\* introducer, in any casing.
C16_NoIntroducerInTransformedSQL ==
    (pc = "done" /\ result.Error = "")
        => \A p \in IntroducerPrefixes :
              ~Contains(ToLower(result.TransformedSQL), p)

\* the node after each checker of cs in turn was offered what its
\* predecessor left of node n: T[0] = n, T[i] is what checker i returned on
\* T[i-1], or T[i-1] itself when checker i panicked
Threaded(cs, n, c) ==
    LET T[i \in 0..Len(cs)] ==
            IF i = 0 THEN n
            ELSE IF Inspect(cs[i], T[i - 1], c).panic THEN T[i - 1]
            ELSE Inspect(cs[i], T[i - 1], c).node
    IN T

\* the issues checker i emitted in the Enter call v
IssuesBy(v, i) == IssuesOf(SelectSeq(v.emits, LAMBDA e : e.chk = i))

\* C18: in an Enter call every checker is offered the node its predecessors
\* left (it reports what its Inspect reports on that node), and the node the
\* walker gets back is the node the last checker left.
C18_ReplacementThreaded ==
    [][(pc = "walk" /\ todo # <<>> /\ ~vskip) =>
          LET p == Head(todo)
              v == visits'[Len(visits')]
              T == Threaded(checkers, GetNode(stmts[si], p), cfg)
          IN /\ GetNode(stmts'[si], p) = T[Len(checkers)]
             /\ \A i \in 1..Len(checkers) :
                   ~Inspect(checkers[i], T[i - 1], cfg).panic
                       => IssuesBy(v, i) = IssuesOf(Inspect(checkers[i], T[i - 1], cfg).emits)
      ]_vars

\* C18 witness: in one Enter call a checker replaced the node and a checker
\* registered after it, offered the replacement, reported an issue.
C18_Witness ==
    \E k \in DOMAIN visits :
        \E e1, e2 \in Range(visits[k].emits) :
            /\ e1.chk < e2.chk
            /\ e1.changed

\* the Enter call on the root of statement j
RootVisits(j) == {k \in DOMAIN visits : visits[k].si = j /\ visits[k].path = <<>>}

\* C19: when the walk is over, the root of every statement that is not nil
\* was entered with the skip flag down and was offered to every registered
\* checker, whatever was skipped in the statements before it; and a node was
\* passed over only after a skip request in its own statement.
C19_SkipResetPerStatement ==
    WalkOver =>
        /\ \A j \in 1..Len(parsed) :
              parsed[j] # Nil =>
                  /\ RootVisits(j) # {}
                  /\ \A k \in RootVisits(j) :
                        /\ ~visits[k].bypass
                        /\ visits[k].offered = [i \in 1..Len(checkers) |-> i]
        /\ \A k \in DOMAIN visits :
              visits[k].bypass =>
                  \E h \in 1..(k - 1) :
                      /\ visits[h].si = visits[k].si
                      /\ visits[h].skip
                      /\ ~visits[h].bypass

\* C19 witness: an Enter call in a statement asked to skip, and the root of
\* a later statement was offered to the checkers.
C19_Witness ==
    /\ WalkOver
    /\ \E k1, k2 \in DOMAIN visits :
          /\ visits[k1].si < visits[k2].si
          /\ visits[k1].skip
          /\ ~visits[k1].bypass
          /\ visits[k2].path = <<>>
          /\ visits[k2].offered # <<>>

\* the name of a function call node of any variant
FuncNameOf(n) ==
    CASE n.kind = "FuncCallExpr" -> n.FnName.O
      [] n.kind = "AggregateFuncExpr" -> n.F
      [] OTHER -> n.Name

\* C20: when the function checker, registered alone, reports a function
\* call, the node it leaves is of the same variant and carries the target
\* name of the rule, the arguments, and the distinct flag, the ordering and
\* the window specification of the node it was offered.
C20_ReplaceFunctionKeepsAttributes ==
    [][(/\ pc = "walk" /\ todo # <<>> /\ ~vskip
        /\ checkers = <<"FunctionChecker">>
        /\ visits'[Len(visits')].emits # <<>>) =>
          LET old == GetNode(stmts[si], Head(todo))
              new == GetNode(stmts'[si], Head(todo))
              issue == visits'[Len(visits')].emits[1].issue
          IN /\ new.kind = old.kind
             /\ FuncNameOf(new) = issue.Target
             /\ new.Args = old.Args
             /\ old.kind = "AggregateFuncExpr"
                    => (new.Distinct = old.Distinct /\ new.Order = old.Order)
             /\ old.kind = "WindowFuncExpr"
                    => (new.Distinct = old.Distinct /\ new.Spec = old.Spec)
      ]_vars

\* a replace_type issue whose target replaceType does not recognise
Declined(issue) ==
    issue.Action = "replace_type" /\ issue.Target \notin ReplaceTypeTargets

\* C21: when the data type checker, registered alone, reports a column whose
\* rule names a target type replaceType does not recognise, the column is
\* left as it was (and the whole statement, when every issue of the call is
\* of that sort), and the issue is appended to the checker's buffer.
C21_DeclinedTransformationStillReported ==
    [][(/\ pc = "walk" /\ todo # <<>>
        /\ checkers = <<"DataTypeChecker">>) =>
          LET v == visits'[Len(visits')] IN
          /\ \A j \in DOMAIN v.emits :
                Declined(v.emits[j].issue) =>
                  /\ GetNode(stmts'[si], v.path \o v.emits[j].sub)
                     = GetNode(stmts[si], v.path \o v.emits[j].sub)
                  /\ \E k \in (Len(buf[1]) + 1)..Len(buf'[1]) :
                        buf'[1][k] = v.emits[j].issue
          /\ (\A j \in DOMAIN v.emits : Declined(v.emits[j].issue))
                => stmts' = stmts
      ]_vars

\* an analysis is over in which the data type checker, registered alone,
\* reported a column with an unrecognised target type, left the column as it
\* was, and the issue is in the result
C21_Witness ==
    /\ pc = "done"
    /\ checkers = <<"DataTypeChecker">>
    /\ \E k \in DOMAIN visits : \E j \in DOMAIN visits[k].emits :
          /\ Declined(visits[k].emits[j].issue)
          /\ ~visits[k].emits[j].changed
          /\ \E i \in DOMAIN result.Issues : result.Issues[i] = visits[k].emits[j].issue

\* the column definitions of a statement: those of CREATE TABLE and those of
\* the ADD/MODIFY/CHANGE specs of ALTER TABLE
ColumnDefsOf(stmt) ==
    CASE stmt.kind = "CreateTableStmt" -> stmt.Cols
      [] stmt.kind = "AlterTableStmt" ->
            Flatten([i \in 1..Len(stmt.Specs) |-> stmt.Specs[i].NewColumns])
      [] OTHER -> <<>>

\* the AUTO_INCREMENT column options of a statement
AutoIncsOf(stmt) ==
    Flatten([c \in 1..Len(ColumnDefsOf(stmt)) |->
                SelectSeq(ColumnDefsOf(stmt)[c].Options, IsAutoInc)])

IsAutoIncIssue(issue) ==
    issue.Checker = "SyntaxChecker" /\ issue.Pattern = "AUTO_INCREMENT"

WithSyntaxChecker ==
    /\ \E i \in 1..Len(checkers) : checkers[i] = "SyntaxChecker"
    /\ \A i \in 1..Len(checkers) : checkers[i] # "PanicChecker"

\* C28: with the AUTO_INCREMENT rule registered, the first analysis of a
\* text by a SyntaxChecker reports at least one AUTO_INCREMENT issue for
\* every AUTO_INCREMENT column option of its statements, in CREATE TABLE and
\* in the ADD/MODIFY/CHANGE specs of ALTER TABLE alike, and no transformed
\* statement keeps such an option.
C28_EveryAutoIncrementReportedAndRemoved ==
    (pc = "done" /\ pass = 1 /\ result.Error = "" /\ WithSyntaxChecker)
       => /\ Len(SelectSeq(result.Issues, IsAutoIncIssue))
                >= Len(Flatten([s \in 1..Len(parsed) |-> AutoIncsOf(parsed[s])]))
          /\ \A s \in 1..Len(transformed) : AutoIncsOf(transformed[s]) = <<>>
IsEngineIssue(issue) ==
    issue.Checker = "SyntaxChecker" /\ issue.Pattern = "ENGINE"

HasEngineOption(stmt) ==
    \E i \in 1..Len(stmt.Options) : stmt.Options[i].Tp = TableOptionEngine

\* a CREATE TABLE with an AUTO_INCREMENT column and an ENGINE table option
AutoIncAndEngine(stmt) ==
    /\ stmt.kind = "CreateTableStmt"
    /\ AutoIncsOf(stmt) # <<>>
    /\ HasEngineOption(stmt)

\* the issues Check reported in statement s, read off the Enter calls
ReportedIn(s) ==
    Flatten([k \in 1..Len(visits) |->
        IF visits[k].si = s
        THEN [e \in 1..Len(visits[k].emits) |-> visits[k].emits[e].issue]
        ELSE <<>>])

\* C30: for a CREATE TABLE that has an AUTO_INCREMENT column and an ENGINE
\* table option, a SyntaxChecker with both rules registered reports the
\* AUTO_INCREMENT issue and the ENGINE issue: the column check does not keep
\* the table options from being checked.
C30_ColumnCheckNeverSuppressesEngineCheck ==
    (pc = "done" /\ pass = 1 /\ result.Error = "" /\ WithSyntaxChecker)
       => \A s \in 1..Len(parsed) :
             AutoIncAndEngine(parsed[s])
                => /\ SelectSeq(ReportedIn(s), IsAutoIncIssue) # <<>>
                   /\ SelectSeq(ReportedIn(s), IsEngineIssue) # <<>>
                   /\ \E i \in 1..Len(result.Issues) : IsAutoIncIssue(result.Issues[i])
                   /\ \E i \in 1..Len(result.Issues) : IsEngineIssue(result.Issues[i])

\* the first analysis of such a CREATE TABLE ended and its result holds both
\* issues
C30_Witness ==
    /\ pc = "done"
    /\ pass = 1
    /\ WithSyntaxChecker
    /\ Len(parsed) = 1
    /\ AutoIncAndEngine(parsed[1])
    /\ AutoIncsOf(transformed[1]) = <<>>
    /\ \E i, j \in 1..Len(result.Issues) :
          /\ i < j
          /\ IsAutoIncIssue(result.Issues[i])
          /\ IsEngineIssue(result.Issues[j])

\* what Check reported in the ALTER TABLE statements: the Enter call, the
\* statement, the checker, the node reported on and the rule's pattern
AlterReports ==
    Flatten([k \in 1..Len(visits) |->
        IF parsed[visits[k].si].kind = "AlterTableStmt"
        THEN [e \in 1..Len(visits[k].emits) |->
                [visit |-> k, si |-> visits[k].si, chk |-> visits[k].emits[e].chk,
                 at |-> visits[k].path \o visits[k].emits[e].sub,
                 pattern |-> visits[k].emits[e].issue.Pattern]]
        ELSE <<>>])

\* the path of a column definition of an ADD/MODIFY/CHANGE spec
IsColumnPath(p) == Len(p) = 2 /\ p[1].f = "Specs" /\ p[2].f = "NewColumns"

\* C29: in an ALTER TABLE statement a column definition of an
\* ADD/MODIFY/CHANGE spec yields at most one issue per checker and rule:
\* two reports of one checker on one column come from the same Enter call
\* and from different rules, so the statement-level handling and a visit of
\* the column node never both report the column.
C29_AlterColumnReportedOnce ==
    \A a, b \in 1..Len(AlterReports) :
        (/\ a < b
         /\ IsColumnPath(AlterReports[a].at)
         /\ AlterReports[a].si = AlterReports[b].si
         /\ AlterReports[a].chk = AlterReports[b].chk
         /\ AlterReports[a].at = AlterReports[b].at)
           => /\ AlterReports[a].visit = AlterReports[b].visit
              /\ AlterReports[a].pattern # AlterReports[b].pattern

\* an ALTER TABLE analysed by two checkers that both reported a column from
\* the statement node; the column node itself was never entered
C29_Witness ==
    /\ pc = "done"
    /\ pass = 1
    /\ \E a, b \in 1..Len(AlterReports) :
          /\ AlterReports[a].chk # AlterReports[b].chk
          /\ IsColumnPath(AlterReports[a].at)
          /\ IsColumnPath(AlterReports[b].at)
          /\ visits[AlterReports[a].visit].path = <<>>
          /\ visits[AlterReports[b].visit].path = <<>>
          /\ \A k \in 1..Len(visits) :
                visits[k].path \notin {AlterReports[a].at, AlterReports[b].at}

\* ------------------------------------------------------------------------
\* Properties of two analyses of the same text (RepeatSpec)
\* ------------------------------------------------------------------------
\* C17: when the same analyzer has analysed the same text twice and the
\* restorer failed in neither analysis, the second result is the first one:
\* the same transformed SQL and the same issues in the same order.
C17_SameInputSameResult ==
    (pc = "done" /\ pass = 2 /\ result.Error # "transform" /\ first.Error # "transform")
        => /\ result.TransformedSQL = first.TransformedSQL
           /\ result.Issues = first.Issues
           /\ result = first

\* several checkers have reported issues and mutated the statements twice
C17_Witness ==
    /\ pc = "done"
    /\ pass = 2
    /\ Len(checkers) > 1
    /\ Len(result.Issues) > 1
    /\ result.TransformedSQL # sql
    /\ result = first

\* ------------------------------------------------------------------------
\* Properties of the shared checker (BufferSpec)
\* ------------------------------------------------------------------------
AllReturned == gor # <<>> /\ \A g \in DOMAIN gor : gor[g].pc = "done"

Adders == {g \in DOMAIN gor : "AddIssue" \in Range(gor[g].prog)}

BatchAdders == {g \in DOMAIN gor : "AddIssues" \in Range(gor[g].prog)}

\* the issues the goroutines add
Added ==
    {IssueOf(g) : g \in Adders}
    \cup UNION {{BatchOf(g)[i] : i \in 1..Len(BatchOf(g))} : g \in BatchAdders}

NoReset == \A g \in DOMAIN gor : "Reset" \notin Range(gor[g].prog)

\* C22: at most one goroutine holds the write lock and none holds the read
\* lock with it; and when every goroutine has returned and none called
\* Reset, Issues() holds the issues the goroutines added by AddIssue and
\* AddIssues: each of them exactly once, and nothing else.
C22_ConcurrentAddIssueLosesNothing ==
    /\ mu.w <= 1
    /\ mu.w = 1 => mu.r = 0
    /\ (AllReturned /\ NoReset) =>
          /\ issues.len = Cardinality(Added)
          /\ \A x \in Added :
                Cardinality({k \in 1..issues.len : View(heap, issues)[k] = x}) = 1

\* every goroutine called AddIssue and then Issues, as in the concurrency
\* test, all have returned, and two of them read the buffer before the last
\* issue was added
C22_Witness ==
    /\ AllReturned
    /\ \A g \in DOMAIN gor : gor[g].prog = <<"AddIssue", "Issues">>
    /\ issues.len = NumGoroutines
    /\ \E g, h \in DOMAIN gor : g # h /\ gor[g].snap.len < NumGoroutines
                                      /\ gor[h].snap.len < NumGoroutines

\* C27: the list a call of Issues returned keeps the length and the elements
\* it had on return, whatever calls of Reset and AddIssue follow.
C27_IssuesSnapshotStable ==
    \A g \in DOMAIN gor :
        gor[g].has =>
            /\ gor[g].snap.len = Len(gor[g].snapAt)
            /\ View(heap, gor[g].snap) = gor[g].snapAt

\* ------------------------------------------------------------------------
\* Properties of the rule index (LoadSpec)
\* ------------------------------------------------------------------------
Loaded == ri = Len(cfg) + 1

\* the positions in the catalog of the rules of the checker's category
\* whose upper-cased pattern is key
Mine(key) ==
    {i \in 1..Len(cfg) :
        EqualFold(cfg[i].Category, category) /\ ToUpper(cfg[i].Pattern) = key}

Max(S) == CHOOSE x \in S : \A y \in S : y <= x

\* C23: once the checker has loaded the catalog, the keys of its index are
\* the upper-cased patterns of the catalog rules of its category, each key
\* holds the last such rule in catalog order, and no rule of the index is of
\* another category.  This is the index the checkers of the analysis look
\* their rules up in.
C23_IndexHoldsLastRulePerPattern ==
    Loaded =>
        /\ DOMAIN rules = {ToUpper(cfg[i].Pattern) : i \in {j \in 1..Len(cfg) :
                                EqualFold(cfg[j].Category, category)}}
        /\ \A key \in DOMAIN rules :
              /\ rules[key] = cfg[Max(Mine(key))]
              /\ EqualFold(rules[key].Category, category)
        /\ rules = LoadRulesFromConfig(category, cfg)

\* the catalog had two different rules of the checker's category under one
\* key, the later one is in the index, and a rule of another category was
\* passed over
C23_Witness ==
    /\ Loaded
    /\ \E key \in DOMAIN rules :
          /\ Cardinality(Mine(key)) >= 2
          /\ \E i \in Mine(key) : cfg[i] # rules[key]
    /\ \E i \in 1..Len(cfg) : ~EqualFold(cfg[i].Category, category)

\* ------------------------------------------------------------------------
\* Properties of the checker factory (FactorySpec)
\* ------------------------------------------------------------------------
KnownCategories == {"datatype", "function", "syntax", "charset"}

AllKnown == \A i \in 1..Len(categories) : ToLower(categories[i]) \in KnownCategories

\* C24: when CreateCheckers has returned: if every name is one of datatype,
\* function, syntax, charset in whatever case, there is no error and the
\* list holds, position by position, the checker of the category named (an
\* empty list for no name); otherwise there is an error and no list.
C24_OneCheckerPerCategoryInOrder ==
    created # NoReturn =>
        IF AllKnown
        THEN /\ created.err = "nil"
             /\ ~created.isNil
             /\ Len(created.checkers) = Len(categories)
             /\ \A i \in 1..Len(categories) :
                   CategoryOf(created.checkers[i]) = ToLower(categories[i])
        ELSE /\ created.err # "nil"
             /\ created.isNil
             /\ created.checkers = <<>>

\* CreateCheckers returned four checkers for names of which one is not in
\* lower case and two are the same
C24_Witness ==
    /\ created # NoReturn
    /\ created.err = "nil"
    /\ Len(created.checkers) = MaxCategories
    /\ \E i \in 1..Len(categories) : ToLower(categories[i]) # categories[i]
    /\ \E i, j \in 1..Len(categories) : i # j /\ categories[i] = categories[j]

\* ------------------------------------------------------------------------
\* Properties of the command line program (CliSpec)
\* ------------------------------------------------------------------------
\* C25 (as claimed): the process exits with 0 on success, 1 when the
\* arguments are wrong, 2 when the rule catalog cannot be found, read or
\* parsed, and 3 when the analysis fails.
C25_ExitCodes ==
    stage = "exited" =>
        /\ cause = "none" => exitCode = 0
        /\ cause = "argument" => exitCode = 1
        /\ cause = "config" => exitCode = 2
        /\ cause = "analysis" => exitCode = 3


\* ------------------------------------------------------------------------
\* Properties of a directory walked by one analyzer (DirSpec)
\* ------------------------------------------------------------------------
\* what the i-th entry of the directory adds to the directory's issues when
\* it is analysed alone by checkers with empty buffers: nothing for a
\* directory, the issue that reports the error for an analysis that ended
\* with one, the analysis' issues otherwise
OwnIssues(i, failAt) ==
    IF fs[i].isDir THEN <<>>
    ELSE IF AnalyzeSQL(WalkRead(Path(i), fs[i]).content, Path(i), checkers, cfg, failAt).res.Error # ""
    THEN <<ErrorIssue(Path(i),
                      AnalyzeSQL(WalkRead(Path(i), fs[i]).content, Path(i), checkers, cfg,
                                 failAt).res.Error)>>
    ELSE AnalyzeSQL(WalkRead(Path(i), fs[i]).content, Path(i), checkers, cfg, failAt).res.Issues

\* C26: checkers that are reused for several inputs report, in each
\* analysis, only the issues emitted during that analysis; the issues of a
\* directory whose walk ran to its end are the concatenation, in the order
\* of the walk, of what each file yields on its own, and no issue of an
\* earlier file is repeated for a later one.
C26_EachAnalysisReportsItsOwnIssues ==
    /\ (pc = "done" /\ walking /\ result.Error = "")
          => result.Issues = AnalyzeSQL(sql, source, checkers, cfg, 0).res.Issues
    /\ (pc = "returned" /\ result.Error = "")
          => \E failAt \in [1..Len(fs) -> 0..1] :
                result.Issues = Flatten([i \in 1..Len(fs) |-> OwnIssues(i, failAt[i])])

\* a walk of two files ended; every checker reported issues in the first
\* file and other issues in the second, and the directory's issues are the
\* first file's followed by the second's
C26_Witness ==
    /\ pc = "returned"
    /\ result.Error = ""
    /\ Len(fs) = 2
    /\ Len(checkers) > 0
    /\ OwnIssues(1, 0) # <<>>
    /\ OwnIssues(2, 0) # <<>>
    /\ OwnIssues(1, 0) # OwnIssues(2, 0)
    /\ \A k \in 1..Len(result.Issues) : result.Issues[k].Checker # "Error"
    /\ result.Issues = OwnIssues(1, 0) \o OwnIssues(2, 0)
====
